---- MODULE Spec2Model ----
(***************************************************************************)
(* Model of the interview session state machine and of the analysis        *)
(* pipeline of code-mentor-llm.                                            *)
(*                                                                         *)
(*   - InterviewModeService  (server/services/interviewModeService.js)     *)
(*   - analyzeController     (server/controllers/analyzeController.js)     *)
(*   - RAGPipeline           (server/rag/ragPipeline.js)                   *)
(*                                                                         *)
(* Texts are sequences of tokens: a token stands for a maximal run of      *)
(* characters the regular expressions of the code treat alike (the word    *)
(* "interview" in some letter case, the word "mode" in some letter case,   *)
(* one whitespace character, any other word).                              *)
(***************************************************************************)
EXTENDS Integers, Sequences, FiniteSets, Bags, TLC

VARIABLES
    sessions,     \* InterviewModeService.sessions : Map id -> session
    uuids,        \* number of identifiers uuidv4() has handed out
    now,          \* the wall clock (new Date()), in milliseconds
    ret,          \* the last Session Manager call and what it returned
    rag,          \* the last RAGPipeline.analyzeProblem call: what it was
                  \* given, what it passed on and what it returned
    objects,      \* the session objects the analyze controller has created,
                  \* by address
    interviewSessions,  \* analyzeController interviewSessions : Map id -> address
    awaiting,     \* the controller requests suspended at their await
    apiUuids,     \* number of session identifiers the controller drew from uuidv4()
    res,          \* the last response the controller sent
    faiss,        \* the FAISSService instance: index, documents, isInitialized
    disk,         \* the snapshot file at embeddingsPath and the file at indexPath
    found,        \* the FAISSService.search call followed, and what it resolved to
    parse,        \* the last parseStructuredResponse call and what it returned
    evaluation,   \* the last code evaluation: the reply and what was answered
    embedder,     \* the EmbeddingService instance: usePython, cache, and the
                  \* embed and embedBatch calls with the request each waits for
    searching     \* the FAISSService calls suspended at an await

smVars  == <<sessions, uuids, ret>>
ragVars == <<rag>>
apiVars == <<objects, interviewSessions, awaiting, apiUuids, res>>
indexVars  == <<faiss, disk, found>>
parserVars == <<parse, evaluation>>
embedVars  == <<embedder>>
overlapVars == <<searching>>
vars    == <<sessions, uuids, now, ret, rag, objects, interviewSessions, awaiting,
             apiUuids, res, faiss, disk, found, parse, evaluation, embedder,
             searching>>

----------------------------------------------------------------------------
(* Bounds of the model *)

MaxAdvances == 4      \* updateSession calls explored per session
MaxHistory  == 1      \* transcript entries explored over all sessions
MaxTicks    == 2      \* clock steps explored
MaxProblemLen == 3    \* tokens of the problem texts explored by SpecCreate
MaxObjects  == 2      \* session objects the analyze controller creates
MaxTurns    == 4      \* interview turns explored per controller session
MaxIndexDocs == 3     \* documents and vectors the index holds
MaxBatch    == 2      \* documents given to one addDocuments call

(* The identifiers uuidv4() returns, in the order it returns them. *)
UuidSeq == <<"s1", "s2">>
SessionIds == {UuidSeq[i] : i \in 1..Len(UuidSeq)}

(* One clock step of the model: as long as the session timeout, so that a
   sweep meets idle times below, at and above the timeout. *)
TickMillis == 30 * 60 * 1000

----------------------------------------------------------------------------
(* Texts *)

Tokens == {"interview", "INTERVIEW", "mode", "Mode", " ", "w"}

toLowerCase(t) ==
    CASE t = "INTERVIEW" -> "interview"
      [] t = "Mode"      -> "mode"
      [] OTHER           -> t

IsSpace(t) == t \in {" ", "\n"}

lowerText(p) == [i \in 1..Len(p) |-> toLowerCase(p[i])]

(* String.prototype.trim *)
RECURSIVE trimStart(_)
trimStart(p) ==
    IF p # <<>> /\ IsSpace(Head(p)) THEN trimStart(Tail(p)) ELSE p

RECURSIVE trimEnd(_)
trimEnd(p) ==
    IF p # <<>> /\ IsSpace(p[Len(p)])
    THEN trimEnd(SubSeq(p, 1, Len(p) - 1))
    ELSE p

trim(p) == trimEnd(trimStart(p))

\* First position from j on that holds no whitespace (the greedy whitespace run).
RECURSIVE skipSpaces(_, _)
skipSpaces(p, j) ==
    IF j <= Len(p) /\ IsSpace(p[j]) THEN skipSpaces(p, j + 1) ELSE j

\* The end of the match of the trigger pattern (interview, whitespace run, mode)
\* that starts at i, 0 if none; ci is the i flag of the regular expression.
matchEnd(p, i, ci) ==
    LET eq(t, w) == IF ci THEN toLowerCase(t) = w ELSE t = w
        j == skipSpaces(p, i + 1)
    IN  IF eq(p[i], "interview") /\ j <= Len(p) /\ eq(p[j], "mode")
        THEN j ELSE 0

\* String.prototype.replace with the trigger pattern, the g flag and '': one
\* left-to-right pass from position i that drops every match and resumes
\* after it.
RECURSIVE replaceFrom(_, _, _)
replaceFrom(p, i, ci) ==
    IF i > Len(p) THEN << >>
    ELSE LET e == matchEnd(p, i, ci)
         IN  IF e # 0
             THEN replaceFrom(p, e + 1, ci)
             ELSE <<p[i]>> \o replaceFrom(p, i + 1, ci)

(* Mutant: the i flag is missing, the match is case-sensitive. *)
cleanProblemCaseSensitive(problem) == trim(replaceFrom(problem, 1, FALSE))

(* problem.replace(/interview\s*mode/gi, '').trim() *)
cleanProblem(problem) == trim(replaceFrom(problem, 1, TRUE))

(* All texts of at most n tokens. *)
RECURSIVE Texts(_)
Texts(n) ==
    IF n = 0 THEN {<< >>}
    ELSE LET shorter == Texts(n - 1)
         IN  shorter \cup {Append(p, t) : p \in shorter, t \in Tokens}

----------------------------------------------------------------------------
(* INTERVIEW_MODE constants *)

PHASE_UNDERSTANDING == "understanding"
PHASE_APPROACH      == "approach"
PHASE_OPTIMIZATION  == "optimization"
PHASE_REVEAL        == "reveal"

(* Object.values(INTERVIEW_MODE.PHASES) *)
phases == <<PHASE_UNDERSTANDING, PHASE_APPROACH, PHASE_OPTIMIZATION, PHASE_REVEAL>>

MAX_GUIDED_QUESTIONS == 3

(* phases.indexOf(phase), 1-based *)
indexOf(phase) == CHOOSE i \in 1..Len(phases) : phases[i] = phase

sessionTimeout == 30 * 60 * 1000

----------------------------------------------------------------------------
(* InterviewModeService *)

(* No call has been made yet. *)
NoCall == [called |-> FALSE]

(* RAG_SIMILARITY_THRESHOLD in hundredths, or not set. *)
NotSet == [set |-> FALSE, value |-> 0]
Setting(v) == [set |-> TRUE, value |-> v]

defaultThreshold == 70     \* 0.7 in hundredths

(* parseFloat(process.env.RAG_SIMILARITY_THRESHOLD) || 0.7: NaN and 0 are
   falsy. *)
similarityThreshold(env) ==
    IF env.set /\ env.value # 0 THEN env.value ELSE defaultThreshold

(* new EmbeddingService(): Python first, nothing cached, no call made.
   last is the request the last step of a call ended and the one it began. *)
newEmbeddingService ==
    [usePython |-> TRUE,
     cache     |-> << >>,
     calls     |-> << >>,
     last      |-> [call |-> 0, failed |-> "", attempted |-> ""]]

(* FAISSService.constructor: no index object yet, no documents. *)
newFAISSService(env) ==
    [index |-> << >>, created |-> FALSE, documents |-> << >>, isInitialized |-> FALSE,
     configured |-> env, similarityThreshold |-> similarityThreshold(env)]

(* Neither the snapshot at embeddingsPath nor a file at indexPath exists. *)
NoFiles ==
    [snapshot |-> FALSE, documents |-> << >>, embeddings |-> << >>, indexFile |-> FALSE]

Null      == [null |-> TRUE]          \* JavaScript null
Undefined == [undefined |-> TRUE]     \* JavaScript undefined
Str(text) == [string |-> text]        \* a JavaScript string
Num(n)    == [number |-> n]           \* a JavaScript number
Arr(list) == [array |-> list]         \* a JavaScript array
IsString(value) == "string" \in DOMAIN value

min(a, b) == IF a < b THEN a ELSE b

(* The texts passed to createSession in the session state machine. *)
SessionProblems == {<<"interview", " ", "mode", " ", "w">>, <<"w">>}

(* The user turns passed to updateSession (the empty text is the default). *)
UserResponses == {<< >>, <<"w">>}

(* The assistant replies passed to addResponse. *)
AssistantResponses == {<<"w">>}

historyTotal ==
    LET RECURSIVE sum(_)
        sum(S) == IF S = {} THEN 0
                  ELSE LET x == CHOOSE x \in S : TRUE
                       IN  Len(sessions[x].history) + sum(S \ {x})
    IN  sum(DOMAIN sessions)

(* A call of the service: the method, the session identifier and the other
   argument it was given, and the value it returned. *)
Returned(op, id, arg, val) == [op |-> op, id |-> id, arg |-> arg, val |-> val]

(* The state of each module once it is loaded. *)
ServiceInit ==
    /\ sessions = << >>
    /\ uuids = 0
    /\ now = 0
    /\ ret = Returned("constructor", "", << >>, Undefined)

ControllerInit ==
    /\ rag = NoCall
    /\ objects = << >>
    /\ interviewSessions = << >>
    /\ awaiting = EmptyBag
    /\ apiUuids = 0
    /\ res = [handler |-> "", status |-> 0]

FaissInit ==
    /\ faiss = newFAISSService(NotSet)
    /\ disk = NoFiles
    /\ found = NoCall

(* The embedding service as constructed, and no call to the index suspended. *)
EmbeddingInit ==
    /\ embedder = newEmbeddingService
    /\ searching = {}

ParserInit ==
    /\ parse = NoCall
    /\ evaluation = NoCall
    /\ EmbeddingInit

Init == ServiceInit /\ ControllerInit /\ FaissInit /\ ParserInit

(* The session object createSession builds. *)
newSession(sessionId, problem) ==
    [id              |-> sessionId,
     problem         |-> cleanProblem(problem),
     phase           |-> PHASE_UNDERSTANDING,
     interactions    |-> 0,
     maxInteractions |-> MAX_GUIDED_QUESTIONS,
     startedAt       |-> now,
     lastActivity    |-> now,
     history         |-> << >>]

createSession(problem) ==
    /\ uuids < Len(UuidSeq)
    /\ LET sessionId == UuidSeq[uuids + 1]
           session   == newSession(sessionId, problem)
       IN  /\ sessions' = (sessionId :> session) @@ sessions
           /\ ret' = Returned("createSession", sessionId, problem, session)
    /\ uuids' = uuids + 1
    /\ UNCHANGED <<now, ragVars, apiVars, indexVars, parserVars, embedVars, overlapVars>>

getSession(sessionId) ==
    /\ IF sessionId \in DOMAIN sessions
       THEN /\ sessions' = [sessions EXCEPT ![sessionId].lastActivity = now]
            /\ ret' = Returned("getSession", sessionId, << >>, sessions'[sessionId])
       ELSE /\ ret' = Returned("getSession", sessionId, << >>, Undefined)
            /\ UNCHANGED sessions
    /\ UNCHANGED <<uuids, now, ragVars, apiVars, indexVars, parserVars, embedVars, overlapVars>>

(* Mutant: the progression branch is missing, only the cap moves the phase. *)
nextPhaseCapOnly(phase, interactions, maxInteractions) ==
    IF interactions >= maxInteractions THEN PHASE_REVEAL ELSE phase

(* Mutant: the phase is derived from the counter alone. *)
nextPhaseFromCounter(phase, interactions, maxInteractions) ==
    IF interactions >= maxInteractions THEN PHASE_REVEAL
    ELSE phases[interactions + 1]

(* Mutant: the cap branch assigns the wrong phase constant. *)
nextPhaseWrongCap(phase, interactions, maxInteractions) ==
    LET currentIndex == indexOf(phase)
    IN  IF interactions >= maxInteractions THEN PHASE_OPTIMIZATION
        ELSE IF currentIndex < Len(phases) THEN phases[currentIndex + 1]
        ELSE phase

(* The phase updateSession leaves a session in, from the phase it found and *)
(* the counter it has just incremented.                                     *)
nextPhase(phase, interactions, maxInteractions) ==
    LET currentIndex == indexOf(phase)
    IN  IF interactions >= maxInteractions THEN PHASE_REVEAL
        ELSE IF currentIndex < Len(phases) THEN phases[currentIndex + 1]
        ELSE phase

updatedSession(session, userResponse) ==
    LET interactions == session.interactions + 1
    IN  [session EXCEPT
            !.interactions = interactions,
            !.lastActivity = now,
            !.history = IF userResponse # << >>
                        THEN Append(@, [role |-> "user", content |-> userResponse])
                        ELSE @,
            !.phase = nextPhase(@, interactions, session.maxInteractions)]

(* Mutant: an unknown identifier gets a session (get-or-create). *)
updateSessionUpsert(sessionId, userResponse) ==
    /\ LET session == IF sessionId \in DOMAIN sessions THEN sessions[sessionId]
                      ELSE newSession(sessionId, << >>)
       IN  /\ session.interactions < MaxAdvances
           /\ userResponse # << >> => historyTotal < MaxHistory
           /\ sessions' = (sessionId :> updatedSession(session, userResponse)) @@ sessions
           /\ ret' = Returned("updateSession", sessionId, userResponse, sessions'[sessionId])
    /\ UNCHANGED <<uuids, now, ragVars, apiVars, indexVars, parserVars, embedVars, overlapVars>>

updateSession(sessionId, userResponse) ==
    /\ IF sessionId \notin DOMAIN sessions
       THEN /\ ret' = Returned("updateSession", sessionId, userResponse, Null)
            /\ UNCHANGED sessions
       ELSE /\ sessions[sessionId].interactions < MaxAdvances
            /\ userResponse # << >> => historyTotal < MaxHistory
            /\ sessions' = [sessions EXCEPT
                              ![sessionId] = updatedSession(@, userResponse)]
            /\ ret' = Returned("updateSession", sessionId, userResponse, sessions'[sessionId])
    /\ UNCHANGED <<uuids, now, ragVars, apiVars, indexVars, parserVars, embedVars, overlapVars>>

(* Mutant: recording the assistant turn counts as an interaction. *)
addedResponseCounting(session, response) ==
    [session EXCEPT !.history = Append(@, [role |-> "assistant", content |-> response]),
                    !.interactions = @ + 1]

addedResponse(session, response) ==
    [session EXCEPT !.history = Append(@, [role |-> "assistant", content |-> response])]

addResponse(sessionId, response) ==
    /\ IF sessionId \notin DOMAIN sessions
       THEN /\ ret' = Returned("addResponse", sessionId, response, Null)
            /\ UNCHANGED sessions
       ELSE /\ historyTotal < MaxHistory
            /\ sessions' = [sessions EXCEPT ![sessionId] = addedResponse(@, response)]
            /\ ret' = Returned("addResponse", sessionId, response, sessions'[sessionId])
    /\ UNCHANGED <<uuids, now, ragVars, apiVars, indexVars, parserVars, embedVars, overlapVars>>

(* Mutant: the forced reveal counts as an interaction. *)
revealedSessionCounting(session) ==
    [session EXCEPT !.phase = PHASE_REVEAL, !.lastActivity = now,
                    !.interactions = @ + 1]

revealedSession(session) ==
    [session EXCEPT !.phase = PHASE_REVEAL, !.lastActivity = now]

revealSolution(sessionId) ==
    /\ IF sessionId \notin DOMAIN sessions
       THEN /\ ret' = Returned("revealSolution", sessionId, << >>, Null)
            /\ UNCHANGED sessions
       ELSE /\ sessions' = [sessions EXCEPT ![sessionId] = revealedSession(@)]
            /\ ret' = Returned("revealSolution", sessionId, << >>, sessions'[sessionId])
    /\ UNCHANGED <<uuids, now, ragVars, apiVars, indexVars, parserVars, embedVars, overlapVars>>

(* Map.prototype.delete *)
mapDelete(map, keys) == [k \in DOMAIN map \ keys |-> map[k]]

endSession(sessionId) ==
    /\ ret' = Returned("endSession", sessionId, << >>,
                       IF sessionId \in DOMAIN sessions THEN sessions[sessionId]
                                                        ELSE Undefined)
    /\ sessions' = mapDelete(sessions, {sessionId})
    /\ UNCHANGED <<uuids, now, ragVars, apiVars, indexVars, parserVars, embedVars, overlapVars>>

max(a, b) == IF a >= b THEN a ELSE b

sessionStatus(session) ==
    [id                    |-> session.id,
     phase                 |-> session.phase,
     interactions          |-> session.interactions,
     maxInteractions       |-> session.maxInteractions,
     interactionsRemaining |-> max(0, session.maxInteractions - session.interactions),
     startedAt             |-> session.startedAt,
     lastActivity          |-> session.lastActivity,
     historyLength         |-> Len(session.history)]

getSessionStatus(sessionId) ==
    /\ ret' = Returned("getSessionStatus", sessionId, << >>,
                       IF sessionId \notin DOMAIN sessions THEN Null
                       ELSE sessionStatus(sessions[sessionId]))
    /\ UNCHANGED <<sessions, uuids, now, ragVars, apiVars, indexVars, parserVars, embedVars, overlapVars>>

(* Mutant: the operands of the subtraction are swapped. *)
expiredSwapped(session) == session.lastActivity - now > sessionTimeout

(* Mutant: a session idle for exactly the timeout is deleted too. *)
expiredAtTimeout(session) == now - session.lastActivity >= sessionTimeout

(* The test that makes a sweep delete a session. *)
expired(session) == now - session.lastActivity > sessionTimeout

(* The sweep returns nothing; cleaned is the count it logs. *)
cleanupExpiredSessions ==
    LET gone == {id \in DOMAIN sessions : expired(sessions[id])}
    IN  /\ sessions' = mapDelete(sessions, gone)
        /\ ret' = Returned("cleanupExpiredSessions", "", << >>,
                           [cleaned |-> Cardinality(gone)])
    /\ UNCHANGED <<uuids, now, ragVars, apiVars, indexVars, parserVars, embedVars, overlapVars>>

(* Time passes. *)
Tick ==
    /\ now < MaxTicks * TickMillis
    /\ now' = now + TickMillis
    /\ UNCHANGED <<sessions, uuids, ret, ragVars, apiVars, indexVars, parserVars, embedVars, overlapVars>>

SMNext ==
    \/ \E problem \in SessionProblems : createSession(problem)
    \/ \E id \in SessionIds : getSession(id)
    \/ \E id \in SessionIds, u \in UserResponses : updateSession(id, u)
    \/ \E id \in SessionIds, r \in AssistantResponses : addResponse(id, r)
    \/ \E id \in SessionIds : revealSolution(id)
    \/ \E id \in SessionIds : endSession(id)
    \/ \E id \in SessionIds : getSessionStatus(id)
    \/ cleanupExpiredSessions
    \/ Tick


(* Session creation over every problem text of the bound: the last
   identifier is given to a session made from any text, beside an earlier
   session that may have aged, been revealed or been ended. *)
CreateNext ==
    \/ /\ uuids + 1 < Len(UuidSeq)
       /\ \E problem \in SessionProblems : createSession(problem)
    \/ /\ uuids + 1 = Len(UuidSeq)
       /\ \E problem \in Texts(MaxProblemLen) : createSession(problem)
    \/ \E id \in SessionIds : revealSolution(id)
    \/ \E id \in SessionIds : endSession(id)
    \/ Tick

SpecCreate == Init /\ [][CreateNext]_vars

SpecSM == Init /\ [][SMNext]_vars

----------------------------------------------------------------------------
(* The corpus and the similarity search *)

(* n copies of the token t: a text of n characters. *)
Repeat(t, n) == [i \in 1..n |-> t]

(* The documents of the index.  A second document has no tags and texts
   longer than the budgets of the context formats, a third has neither
   problem nor approach. *)
Documents ==
    << [title |-> <<"Two Sum">>, difficulty |-> <<"Easy">>,
        tags |-> <<"array", "hashmap">>,
        problem |-> <<"p1">>, approach |-> <<"a1">>],
       [title |-> <<"LRU Cache">>, difficulty |-> <<"Hard">>,
        tags |-> << >>,
        problem |-> Repeat("p2", 501), approach |-> Repeat("a2", 201)],
       [title |-> <<"Stub">>, difficulty |-> <<"Medium">>,
        tags |-> <<"graph">>,
        problem |-> << >>, approach |-> << >>] >>

(* Similarity scores in hundredths, none below the threshold of 0.7. *)
Scores == {70, 90}

(* What faissService.search(query, k) can resolve to: at most
   min(k, documents.length) results over distinct documents, by descending
   score, each with its rank; the empty list also when the search failed. *)
SearchResults(k) ==
    LET n == IF k < Len(Documents) THEN k ELSE Len(Documents)
    IN  UNION {
          {[i \in 1..len |-> [document |-> Documents[d[i]], score |-> sc[i], rank |-> i]] :
              d  \in {f \in [1..len -> 1..Len(Documents)] :
                          \A a, b \in 1..len : a # b => f[a] # f[b]},
              sc \in {g \in [1..len -> Scores] :
                          \A a, b \in 1..len : a < b => g[a] >= g[b]}}
          : len \in 0..n}

----------------------------------------------------------------------------
(* RAGPipeline *)

(* Mutant: the interview configuration renders the full context. *)
getModeConfigFullInterview(mode) ==
    CASE mode = "quick"     -> [maxTokens |-> 600,  temperature |-> "0.2", topK |-> 1,
                                contextFormat |-> "minimal"]
      [] mode = "interview" -> [maxTokens |-> 600,  temperature |-> "0.5", topK |-> 2,
                                contextFormat |-> "full"]
      [] OTHER              -> [maxTokens |-> 1200, temperature |-> "0.3", topK |-> 2,
                                contextFormat |-> "full"]

(* getModeConfig with no environment variable set; an unknown mode and the
   mode detailed give the detailed configuration. *)
getModeConfig(mode) ==
    CASE mode = "quick"     -> [maxTokens |-> 600,  temperature |-> "0.2", topK |-> 1,
                                contextFormat |-> "minimal"]
      [] mode = "interview" -> [maxTokens |-> 600,  temperature |-> "0.5", topK |-> 2,
                                contextFormat |-> "hints"]
      [] OTHER              -> [maxTokens |-> 1200, temperature |-> "0.3", topK |-> 2,
                                contextFormat |-> "full"]

chunkSize    == 500     \* RAGPipeline.chunkSize, no environment variable set
minimalChars == 200     \* the approach budget of the minimal format

(* text.substring(0, n) *)
substring(text, n) == SubSeq(text, 1, IF n < Len(text) THEN n ELSE Len(text))

(* parts.join(sep) *)
RECURSIVE join(_, _)
join(parts, sep) ==
    IF parts = << >> THEN << >>
    ELSE IF Len(parts) = 1 THEN parts[1]
    ELSE parts[1] \o sep \o join(Tail(parts), sep)

(* a || b for texts: the empty text is falsy. *)
orElse(a, b) == IF a # << >> THEN a ELSE b

tagList(doc) == orElse(join([i \in 1..Len(doc.tags) |-> <<doc.tags[i]>>], <<", ">>), <<"N/A">>)

(* The context line or block of one result in each format. *)
minimalPart(doc) ==
    doc.title \o <<" (">> \o doc.difficulty \o <<"): ">>
        \o orElse(substring(doc.approach, minimalChars), <<"N/A">>)

hintsPart(doc) == <<"Similar: ">> \o doc.title \o <<" - Tags: ">> \o tagList(doc)

fullPart(doc) ==
    <<"\n### ">> \o doc.title \o <<" (">> \o doc.difficulty \o <<")">>
        \o <<"\n**Tags:** ">> \o tagList(doc)
        \o <<"\n**Problem:** ">> \o substring(doc.problem, chunkSize)
        \o <<"\n**Approach:** ">> \o orElse(substring(doc.approach, chunkSize), <<"N/A">>)

contextPart(doc, contextFormat) ==
    CASE contextFormat = "minimal" -> minimalPart(doc)
      [] contextFormat = "hints"   -> hintsPart(doc)
      [] OTHER                     -> fullPart(doc)

source(r) == [title |-> r.document.title, score |-> r.score,
              difficulty |-> r.document.difficulty, tags |-> r.document.tags]

(* What happens inside faissService.search(query, k): the embedding and the
   index answer and the search has results, or one of the two raises. *)
SearchOutcomes(k) ==
    {[kind |-> "results", results |-> r] : r \in SearchResults(k)} \cup
    {[kind |-> "embeddingError", results |-> << >>],
     [kind |-> "indexError", results |-> << >>]}

Found(results) == [kind |-> "results", results |-> results]

(* What faissService.search resolves to: its catch block turns an error of
   the embedding or of the index into the empty list. *)
search(outcome) == IF outcome.kind = "results" THEN outcome.results ELSE << >>

(* The context and the sources of a list of results. *)
formatted(results, contextFormat) ==
    IF results = << >> THEN [threw |-> FALSE, context |-> << >>, sources |-> << >>]
    ELSE [threw |-> FALSE,
          context |-> join([i \in 1..Len(results) |->
                               contextPart(results[i].document, contextFormat)],
                           <<"\n---\n">>),
          sources |-> [i \in 1..Len(results) |-> source(results[i])]]

(* Mutant: an error of the embedding or of the index leaves retrieveContext
   as an exception. *)
retrieveContextPropagating(outcome, contextFormat) ==
    IF outcome.kind # "results"
    THEN [threw |-> TRUE, context |-> << >>, sources |-> << >>]
    ELSE formatted(outcome.results, contextFormat)

(* retrieveContext(query, {topK, contextFormat}): it never throws. *)
retrieveContext(outcome, contextFormat) ==
    formatted(search(outcome), contextFormat)

(* problem.toLowerCase().includes('interview mode') *)
includesKeyword(problem) ==
    \E i \in 1..(Len(problem) - 2) :
        SubSeq(lowerText(problem), i, i + 2) = <<"interview", " ", "mode">>

(* The phase instruction of generateInterviewPrompt: a phase without an
   entry gets the instruction of the initial interaction. *)
phaseInstruction(phase) ==
    CASE phase = "initial"       -> <<"INITIAL interaction">>
      [] phase = "understanding" -> <<"working on understanding">>
      [] phase = "approach"      -> <<"toward an approach">>
      [] phase = "reveal"        -> <<"reveal the solution">>
      [] OTHER                   -> <<"INITIAL interaction">>

generateInterviewPrompt(problem, context, phase) ==
    <<"INTERVIEW_MODE_PROMPT">>
        \o (IF context # << >>
            THEN <<"## REFERENCE (DO NOT REVEAL TO CANDIDATE)">> \o context
            ELSE << >>)
        \o phaseInstruction(phase)
        \o <<"## PROBLEM">> \o problem

generateAnalysisPrompt(problem, context) ==
    <<"SYSTEM_PROMPT">>
        \o (IF context # << >>
            THEN <<"## SIMILAR PROBLEMS FOR REFERENCE">> \o context
                     \o <<"Now analyze the user's problem">>
            ELSE << >>)
        \o <<"## USER'S PROBLEM">> \o problem \o <<"## YOUR COMPREHENSIVE ANALYSIS">>

(* The headings of the mandatory output format, by section number. *)
Heading ==
    << "### 1. PROBLEM UNDERSTANDING", "### 2. BRUTE FORCE APPROACH",
       "### 3. OPTIMIZED APPROACH", "### 4. TIME COMPLEXITY",
       "### 5. SPACE COMPLEXITY", "### 6. EDGE CASES",
       "### 7. JAVA IMPLEMENTATION", "### 8. DRY RUN EXAMPLE",
       "### 9. FOLLOW-UP QUESTIONS", "### 10. COMMON MISTAKES",
       "### 11. PROBLEM VARIATIONS" >>

Headings == {Heading[n] : n \in 1..Len(Heading)}

JavaFence    == "[fence]java"   \* three backquotes and the word java
JsonFence    == "[fence]json"   \* three backquotes and the word json
Fence        == "[fence]"       \* three backquotes
Bullet       == "- "
Newline      == "\n"
FollowUpLine == "Follow-up:"    \* a line that names follow-ups and ends in a colon

(* The first position from i on whose token is in set, 0 if none. *)
RECURSIVE firstFrom(_, _, _)
firstFrom(text, i, set) ==
    IF i > Len(text) THEN 0
    ELSE IF text[i] \in set THEN i ELSE firstFrom(text, i + 1, set)

NoMatch == [matched |-> FALSE]

(* The capture group of a pattern whose match ends at position i: after the
   whitespace run, the shortest text up to a token of stops or the end. *)
captureAfter(text, i, stops) ==
    LET s == skipSpaces(text, i + 1)
        j == firstFrom(text, s, stops)
    IN  [matched |-> TRUE,
         group |-> SubSeq(text, s, IF j = 0 THEN Len(text) ELSE j - 1)]

(* text.match(/head\s*([\s\S]*?)(?=stop|$)/i) *)
capture(text, head, stops) ==
    LET i == firstFrom(text, 1, {head})
    IN  IF i = 0 THEN NoMatch ELSE captureAfter(text, i, stops)

(* text.match(/```java\s*([\s\S]*?)```/), and the same with json: without
   a fence after the opening one there is no match; the opening of a second
   block closes the first. *)
fenced(text, opening) ==
    LET i == firstFrom(text, 1, {opening})
        s == skipSpaces(text, i + 1)
        j == firstFrom(text, s, {Fence, JavaFence, JsonFence})
    IN  IF i = 0 THEN NoMatch
        ELSE IF j = 0 THEN NoMatch
        ELSE [matched |-> TRUE, group |-> SubSeq(text, s, j - 1)]

(* The pattern of the fallback: a follow-up keyword, the rest of its line up
   to the last colon on it, then the capture. *)
captureFallback(text) ==
    LET i   == firstFrom(text, 1, {FollowUpLine})
        eol == firstFrom(text, i, {Newline})
        end == IF eol = 0 THEN Len(text) ELSE eol - 1
        colons == {c \in i..end : text[c] = FollowUpLine}
        last == CHOOSE c \in colons : \A d \in colons : d <= c
    IN  IF i = 0 THEN NoMatch ELSE captureAfter(text, last, Headings)

(* String.prototype.split('\n') *)
RECURSIVE split(_)
split(text) ==
    LET n == firstFrom(text, 1, {Newline})
    IN  IF n = 0 THEN <<text>>
        ELSE <<SubSeq(text, 1, n - 1)>> \o split(SubSeq(text, n + 1, Len(text)))

(* l.trim().match(/^[-•*\d]/) *)
isBullet(line) == trim(line) # << >> /\ Head(trim(line)) = Bullet

(* l.replace(/^[-•*\d.]+\s*/, '').trim(): the marker goes only when the line
   itself starts with it. *)
item(line) ==
    trim(IF line # << >> /\ Head(line) = Bullet THEN Tail(line) ELSE line)

(* The bullet lines of a captured section, without their markers. *)
bulletItems(group) ==
    LET lines == SelectSeq(split(group), isBullet)
        items == [i \in 1..Len(lines) |-> item(lines[i])]
    IN  SelectSeq(items, LAMBDA l : Len(l) > 0)

fallbackItems == 5    \* .slice(0, 5)

(* const sections = {...} *)
emptySections ==
    [understanding |-> Str(<< >>), brute_force |-> Str(<< >>),
     optimized |-> Str(<< >>), time_complexity |-> Str(<< >>),
     space_complexity |-> Str(<< >>), edge_cases |-> Arr(<< >>),
     java_code |-> Str(<< >>), dry_run |-> Str(<< >>),
     follow_up_questions |-> Arr(<< >>), common_mistakes |-> Arr(<< >>),
     variations |-> Arr(<< >>)]

(* The body of the try block, for a text. *)
extractedSections(text) ==
    LET numbered(n) ==
            LET m == capture(text, Heading[n], {Heading[n + 1]})
            IN  IF m.matched THEN Str(trim(m.group)) ELSE Str(<< >>)
        listed(n) ==
            LET m == capture(text, Heading[n], Headings)
            IN  IF m.matched THEN bulletItems(m.group) ELSE << >>
        code == fenced(text, JavaFence)
        alt == captureFallback(text)
        altItems == bulletItems(alt.group)
    IN  [understanding |-> numbered(1),
         brute_force |-> numbered(2),
         optimized |-> numbered(3),
         time_complexity |-> numbered(4),
         space_complexity |-> numbered(5),
         edge_cases |-> Arr(listed(6)),
         java_code |-> IF code.matched THEN Str(trim(code.group)) ELSE Str(<< >>),
         dry_run |-> numbered(8),
         follow_up_questions |->
             IF Len(listed(9)) = 0 /\ alt.matched
             THEN Arr(SubSeq(altItems, 1, min(fallbackItems, Len(altItems))))
             ELSE Arr(listed(9)),
         common_mistakes |-> Arr(listed(10)),
         variations |-> Arr(listed(11))]

(* parseStructuredResponse(llmResponse).  A value that is not a string has no
   match method: the first statement of the try block raises before any
   field is assigned, and the catch block stores the value as it is. *)
parseStructuredResponse(llmResponse) ==
    IF IsString(llmResponse)
    THEN extractedSections(llmResponse.string)
    ELSE [emptySections EXCEPT !.understanding = llmResponse]

(* options.mode || 'detailed' *)
requestedMode(options) == IF options.mode # "" THEN options.mode ELSE "detailed"

isInterviewMode(problem, options) ==
    requestedMode(options) = "interview" \/ includesKeyword(problem)

effectiveConfig(problem, options) ==
    IF isInterviewMode(problem, options) THEN getModeConfig("interview")
    ELSE getModeConfig(requestedMode(options))

(* The test that selects the interview prompt. *)
interviewPrompt(problem, options) ==
    isInterviewMode(problem, options) /\ ~options.revealSolution

(* Mutant: the output shape is chosen without looking at revealSolution. *)
interviewOutputIgnoringReveal(problem, options) ==
    isInterviewMode(problem, options)

(* The test that selects the raw guidance as the structured response. *)
interviewOutput(problem, options) ==
    isInterviewMode(problem, options) /\ ~options.revealSolution

(* Mutant: a failed completion is reported as a success without a reply. *)
failureResultAsSuccess(message, duration) ==
    [success |-> TRUE, error |-> message,
     structured_response |-> [understanding |-> message],
     metadata |-> [duration_ms |-> duration]]

(* The value returned from the catch block. *)
failureResult(message, duration) ==
    [success |-> FALSE, error |-> message, metadata |-> [duration_ms |-> duration]]

(* analyzeProblem(problem, options) for a problem text, when the search
   goes as outcome says and the completion provider resolves to llmResult,
   duration milliseconds after the start: everything the call passes to its
   collaborators, and the value it returns. *)
analyzed(problem, options, outcome, llmResult, duration) ==
    LET mode      == requestedMode(options)
        interview == isInterviewMode(problem, options)
        config    == effectiveConfig(problem, options)
        retrieved == retrieveContext(outcome, config.contextFormat)
        phase     == IF options.phase # "" THEN options.phase ELSE "initial"
    IN  IF retrieved.threw
        THEN [called    |-> TRUE,
              argument  |-> "string",
              problem   |-> problem,
              options   |-> options,
              elapsed   |-> duration,
              searched  |-> TRUE,
              chatted   |-> FALSE,
              search    |-> outcome,
              result    |-> failureResult(outcome.kind, duration)]
        ELSE
        [called       |-> TRUE,
         argument     |-> "string",
         problem      |-> problem,
         options      |-> options,
         elapsed      |-> duration,
         searched     |-> TRUE,
         chatted      |-> TRUE,
         llmResult    |-> llmResult,
         search       |-> outcome,
         results      |-> search(outcome),
         retrieval    |-> [topK |-> config.topK, contextFormat |-> config.contextFormat],
         context      |-> retrieved.context,
         systemPrompt |-> IF interviewPrompt(problem, options)
                          THEN "INTERVIEW_MODE_PROMPT" ELSE "SYSTEM_PROMPT",
         userPrompt   |-> IF interviewPrompt(problem, options)
                          THEN generateInterviewPrompt(problem, retrieved.context, phase)
                          ELSE generateAnalysisPrompt(problem, retrieved.context),
         chat         |-> [temperature |-> config.temperature,
                           maxTokens |-> config.maxTokens],
         result       |->
            IF ~llmResult.success
            THEN failureResult(llmResult.error, duration)
            ELSE [success |-> TRUE,
                  isInterviewMode |-> interview,
                  mode |-> mode,
                  structured_response |->
                      IF interviewOutput(problem, options)
                      THEN [mode |-> "interview", guidance |-> llmResult.response,
                            phase |-> phase]
                      ELSE parseStructuredResponse(Str(llmResult.response)),
                  raw_response |-> llmResult.response,
                  sources |-> retrieved.sources,
                  metadata |-> [duration_ms |-> duration,
                                model |-> llmResult.metadata.model,
                                context_documents |-> Len(retrieved.sources)]]]

(* analyzeProblem(undefined, options): with the mode interview the text is
   never read, the search of an undefined query finds nothing and the
   prompt renders the word undefined; with any other mode
   problem.toLowerCase() raises a TypeError before the retrieval. *)
analyzedUndefined(options, llmResult, duration) ==
    IF requestedMode(options) = "interview"
    THEN [analyzed(<<"undefined">>, options, Found(<< >>), llmResult, duration)
             EXCEPT !.argument = "undefined"]
    ELSE [called    |-> TRUE,
          argument  |-> "undefined",
          problem   |-> <<"undefined">>,
          options   |-> options,
          elapsed   |-> duration,
          searched  |-> FALSE,
          chatted   |-> FALSE,
          result    |-> failureResult(
                            "Cannot read properties of undefined (reading 'toLowerCase')",
                            duration)]

(* The problem texts given to analyzeProblem: the empty text, a text without
   the trigger, with it in mixed case, and with its two words not separated
   by one space. *)
RagProblems ==
    { << >>,
      <<"w">>,
      <<"INTERVIEW", " ", "Mode", " ", "w">>,
      <<"interview", "mode", " ", "w">> }

RagModes  == {"", "quick", "detailed", "interview", "fast"}
RagPhases == {"", "understanding", "approach", "optimization", "reveal"}

RagOptions ==
    [mode : RagModes, revealSolution : BOOLEAN, phase : RagPhases]

(* What a POST to the completion backend comes to: a reply, a response
   with the status 404, or no response at all. *)
notFound == 404

PostOutcomes ==
    { [status |-> 200, model |-> "llama3", content |-> <<"reply">>],
      [status |-> notFound, message |-> "Request failed with status code 404"],
      [status |-> 0, message |-> "connect ECONNREFUSED"] }

(* generate(prompt, options), when its POST to /api/generate comes to post:
   the requests it issues and the value it resolves to. *)
generate(post) ==
    [requests |-> <<[endpoint |-> "/api/generate", status |-> post.status]>>,
     result   |-> IF post.status = 200
                  THEN [success |-> TRUE, response |-> post.content,
                        metadata |-> [model |-> post.model]]
                  ELSE [success |-> FALSE, error |-> post.message,
                        metadata |-> [model |-> "llama3"]]]

(* chat(systemPrompt, userPrompt, options), when its POST to /api/chat comes
   to chatPost and a POST to /api/generate would come to generatePost. *)
chat(chatPost, generatePost) ==
    LET posted == <<[endpoint |-> "/api/chat", status |-> chatPost.status]>>
    IN  IF chatPost.status = 200
        THEN [requests |-> posted,
              result   |-> [success |-> TRUE, response |-> chatPost.content,
                            metadata |-> [model |-> chatPost.model]]]
        ELSE IF chatPost.status = notFound
        THEN [generate(generatePost) EXCEPT !.requests = posted \o @]
        ELSE [requests |-> posted,
              result   |-> [success |-> FALSE, error |-> chatPost.message,
                            metadata |-> [model |-> "llama3"]]]

(* What ollamaService.chat resolves to. *)
LlmResults ==
    { [success |-> TRUE, response |-> <<"reply">>,
       metadata |-> [model |-> "llama3"]],
      [success |-> FALSE, error |-> "connect ECONNREFUSED",
       metadata |-> [model |-> "llama3"]] }

(* The milliseconds between the start of a call and its return. *)
Durations == {0, 250}

(* The call holds no state of its own between requests: one request is
   followed from the initial state. *)
analyzeProblem(problem, options) ==
    /\ ~rag.called
    /\ \E chatPost \in PostOutcomes, generatePost \in PostOutcomes,
          duration \in Durations :
          LET completion == chat(chatPost, generatePost)
              requested(r) ==
                  r @@ [requests |-> IF r.chatted THEN completion.requests
                                     ELSE << >>]
          IN  IF IsString(problem)
              THEN \E outcome \in SearchOutcomes(effectiveConfig(problem.string, options).topK) :
                      rag' = requested(analyzed(problem.string, options, outcome,
                                                completion.result, duration))
              ELSE rag' = requested(analyzedUndefined(options, completion.result,
                                                      duration))
    /\ UNCHANGED <<smVars, now, apiVars, indexVars, parserVars, embedVars, overlapVars>>

RagNext == \E problem \in {Str(text) : text \in RagProblems} \cup {Undefined},
              options \in RagOptions :
              analyzeProblem(problem, options)

SpecRag == Init /\ [][RagNext]_vars

----------------------------------------------------------------------------
(* analyzeController *)

(* The session identifiers the controller draws from uuidv4(), in order, and
   the identifiers callers send. *)
ApiUuidSeq   == <<"u1">>
CallerIds    == {"s1"}
ApiIds       == CallerIds \cup {ApiUuidSeq[i] : i \in 1..Len(ApiUuidSeq)}

VALID_MODES == {"quick", "detailed", "interview"}

revealAfter == 3      \* the interaction count that sets the phase reveal
approachAt  == 2      \* the interaction count that sets the phase approach
minProblemChars == 10 \* the least length of a problem

(* The number of characters of a token; w is a word of ten letters. *)
charCount(t) ==
    CASE t \in {"interview", "INTERVIEW"} -> 9
      [] t \in {"mode", "Mode"}           -> 4
      [] t = " "                           -> 1
      [] OTHER                             -> 10

RECURSIVE length(_)
length(p) == IF p = << >> THEN 0 ELSE charCount(Head(p)) + length(Tail(p))

(* The end of the match of /interview mode/i that starts at i, 0 if none. *)
literalMatchEnd(p, i) ==
    IF /\ i + 2 <= Len(p)
       /\ toLowerCase(p[i]) = "interview"
       /\ p[i + 1] = " "
       /\ toLowerCase(p[i + 2]) = "mode"
    THEN i + 2 ELSE 0

(* problem.replace(/interview mode/gi, '') from position i *)
RECURSIVE replaceLiteralFrom(_, _)
replaceLiteralFrom(p, i) ==
    IF i > Len(p) THEN << >>
    ELSE LET e == literalMatchEnd(p, i)
         IN  IF e # 0 THEN replaceLiteralFrom(p, e + 1)
             ELSE <<p[i]>> \o replaceLiteralFrom(p, i + 1)

(* The phase the analyze handler assigns after counting a turn. *)
turnPhase(interactions) ==
    IF interactions >= revealAfter THEN "reveal"
    ELSE IF interactions = approachAt THEN "approach"
    ELSE "understanding"

(* Mutant: the turn sets the phase of the next count and leaves the counter
   to be incremented when the reply has come. *)
interactedUncounted(session) ==
    [session EXCEPT !.phase = turnPhase(session.interactions + 1)]

(* session.interactions++ and the phase of the new count, before the await. *)
interacted(session) ==
    [session EXCEPT !.interactions = @ + 1,
                    !.phase = turnPhase(session.interactions + 1)]

(* The result the searches of controller requests resolve to: the first
   document of the corpus alone. *)
ApiSearchResults(k) ==
    {r \in SearchResults(k) :
        Len(r) = 1 /\ r[1].document = Documents[1] /\ r[1].score = 90}

(* The requests: problem, mode ("" when absent) and options. *)
ApiProblems == { <<"w">>, <<"interview", " ", "mode", " ", "w">>, <<"mode">> }
ApiModes    == {"", "interview"}
ApiOptions  == [sessionId : CallerIds \cup {""}, revealSolution : BOOLEAN]

(* The handlers suspended at an await, each with what it holds; as many
   requests can be suspended at once as there are connections. *)
Connections == {"c1", "c2"}
MaxPending  == Cardinality(Connections)
suspend(req) == awaiting (+) SetToBag({req})
resume(req)  == awaiting (-) SetToBag({req})

(* The session objects are held by address. An object lives as long as the
   map or a suspended handler refers to it; the others are collected and
   their addresses are given out again. *)
Addresses == 1..MaxObjects
referenced(map, aw) ==
    {map[id] : id \in DOMAIN map} \cup
    {req.session : req \in BagToSet(aw)}
collect(objs, map, aw) ==
    [a \in DOMAIN objs \cap referenced(map, aw) |-> objs[a]]
fresh(objs) == CHOOSE a \in Addresses \ DOMAIN objs :
                   \A b \in Addresses \ DOMAIN objs : a <= b

(* res.json(body), and the response of the error handler to an APIError. *)
json(handler, body) == [handler |-> handler, status |-> 200, body |-> body]
apiError(handler, message, status) ==
    [handler |-> handler, status |-> status, body |-> [error |-> message]]

(* POST /api/analyze up to its await *)
analyzeProblemStart(problem, mode, options) ==
    /\ BagCardinality(awaiting) < MaxPending
    /\ LET effectiveMode == IF mode \in VALID_MODES THEN mode ELSE "detailed"
           interview     == effectiveMode = "interview" \/ includesKeyword(problem)
       IN  IF length(trim(problem)) < minProblemChars
           THEN /\ res' = apiError("analyzeProblem",
                                   "Problem description must be at least 10 characters", 400)
                /\ UNCHANGED <<objects, interviewSessions, awaiting, apiUuids>>
           ELSE IF interview /\ ~options.revealSolution
           THEN LET drawn     == options.sessionId = ""
                    sessionId == IF drawn THEN ApiUuidSeq[apiUuids + 1]
                                 ELSE options.sessionId
                    known     == sessionId \in DOMAIN interviewSessions
                    addr      == IF known THEN interviewSessions[sessionId]
                                 ELSE fresh(objects)
                    session   == IF known THEN objects[addr]
                                 ELSE [id |-> sessionId,
                                       problem |-> trim(replaceLiteralFrom(problem, 1)),
                                       phase |-> "initial",
                                       interactions |-> 0,
                                       startedAt |-> now]
                    turned    == interacted(session)
                IN  /\ drawn => apiUuids < Len(ApiUuidSeq)
                    /\ ~known => DOMAIN objects # Addresses
                    /\ session.interactions < MaxTurns
                    /\ apiUuids' = IF drawn THEN apiUuids + 1 ELSE apiUuids
                    /\ objects' = (addr :> turned) @@ objects
                    /\ interviewSessions' = (sessionId :> addr) @@ interviewSessions
                    /\ awaiting' = suspend(
                          [handler |-> "analyzeProblem", branch |-> "interview",
                           sessionId |-> sessionId, session |-> addr,
                           problem |-> problem,
                           options |-> [mode |-> "interview", revealSolution |-> FALSE,
                                        phase |-> turned.phase]])
                    /\ UNCHANGED res
           ELSE /\ awaiting' = suspend(
                      [handler |-> "analyzeProblem", branch |-> "standard",
                       sessionId |-> "", session |-> 0,
                       problem |-> problem,
                       options |-> [mode |-> effectiveMode,
                                    revealSolution |-> options.revealSolution,
                                    phase |-> ""]])
                /\ UNCHANGED <<objects, interviewSessions, apiUuids, res>>
    /\ UNCHANGED <<smVars, now, ragVars, indexVars, parserVars, embedVars, overlapVars>>

(* The value ragPipeline.analyzeProblem resolves to for a suspended request. *)
PipelineResults(req) ==
    {analyzed(req.problem, req.options, Found(results), llmResult, 0).result :
        results \in ApiSearchResults(effectiveConfig(req.problem, req.options).topK),
        llmResult \in LlmResults}

(* A field of a result; undefined when the result has no such field. *)
field(result, name) == IF name \in DOMAIN result THEN result[name] ELSE Undefined
listField(result, name) ==
    IF name \in DOMAIN result THEN Arr(result[name]) ELSE Undefined

(* POST /api/analyze from its await on *)
analyzeProblemFinish(req) ==
    /\ req.handler = "analyzeProblem"
    /\ \E result \in PipelineResults(req) :
              IF req.branch = "interview"
              THEN res' = json("analyzeProblem",
                      [success |-> result.success,
                       sessionId |-> req.sessionId,
                       mode |-> "interview",
                       phase |-> objects[req.session].phase,
                       interactionsRemaining |->
                           max(0, revealAfter - objects[req.session].interactions),
                       structured_response |-> field(result, "structured_response"),
                       sources |-> listField(result, "sources")])
              ELSE IF ~result.success
              THEN res' = apiError("analyzeProblem", result.error, 500)
              ELSE res' = json("analyzeProblem",
                      [success |-> TRUE,
                       mode |-> req.options.mode,
                       structured_response |-> result.structured_response,
                       sources |-> result.sources])
    /\ awaiting' = resume(req)
    /\ objects' = collect(objects, interviewSessions, awaiting')
    /\ UNCHANGED <<interviewSessions, apiUuids, smVars, now, ragVars, indexVars, parserVars, embedVars, overlapVars>>

(* GET /api/analyze/session/:sessionId *)
apiGetSessionStatus(sessionId) ==
    /\ IF sessionId \notin DOMAIN interviewSessions
       THEN res' = apiError("getSessionStatus", "Session not found", 404)
       ELSE LET session == objects[interviewSessions[sessionId]]
            IN  res' = json("getSessionStatus",
                    [success |-> TRUE,
                     session |-> [id |-> session.id,
                                  phase |-> session.phase,
                                  interactions |-> session.interactions,
                                  interactionsRemaining |->
                                      max(0, revealAfter - session.interactions),
                                  startedAt |-> session.startedAt]])
    /\ UNCHANGED <<objects, interviewSessions, awaiting, apiUuids, smVars, now, ragVars, indexVars, parserVars, embedVars, overlapVars>>

(* POST /api/analyze/session/:sessionId/reveal up to its await *)
apiRevealSolutionStart(sessionId) ==
    /\ BagCardinality(awaiting) < MaxPending
    /\ IF sessionId \notin DOMAIN interviewSessions
       THEN /\ res' = apiError("revealSolution", "Session not found", 404)
            /\ UNCHANGED <<objects, awaiting>>
       ELSE LET addr == interviewSessions[sessionId]
            IN  /\ objects' = [objects EXCEPT ![addr].phase = "reveal"]
                /\ awaiting' = suspend(
                      [handler |-> "revealSolution", branch |-> "reveal",
                       sessionId |-> sessionId, session |-> addr,
                       problem |-> objects[addr].problem,
                       options |-> [mode |-> "", revealSolution |-> TRUE,
                                    phase |-> ""]])
                /\ UNCHANGED res
    /\ UNCHANGED <<interviewSessions, apiUuids, smVars, now, ragVars, indexVars, parserVars, embedVars, overlapVars>>

(* POST /api/analyze/session/:sessionId/reveal from its await on *)
apiRevealSolutionFinish(req) ==
    /\ req.handler = "revealSolution"
    /\ \E result \in PipelineResults(req) :
          IF ~result.success
          THEN res' = apiError("revealSolution", result.error, 500)
          ELSE res' = json("revealSolution",
                  [success |-> TRUE,
                   mode |-> "reveal",
                   structured_response |-> result.structured_response,
                   sources |-> result.sources])
    /\ interviewSessions' = mapDelete(interviewSessions, {req.sessionId})
    /\ awaiting' = resume(req)
    /\ objects' = collect(objects, interviewSessions', awaiting')
    /\ UNCHANGED <<apiUuids, smVars, now, ragVars, indexVars, parserVars, embedVars, overlapVars>>

(* DELETE /api/analyze/session/:sessionId *)
apiEndSession(sessionId) ==
    /\ res' = json("endSession",
                 [success |-> TRUE,
                  message |-> IF sessionId \in DOMAIN interviewSessions
                              THEN "Session ended" ELSE "Session not found"])
    /\ interviewSessions' = mapDelete(interviewSessions, {sessionId})
    /\ objects' = collect(objects, interviewSessions', awaiting)
    /\ UNCHANGED <<awaiting, apiUuids, smVars, now, ragVars, indexVars, parserVars, embedVars, overlapVars>>

ApiNext ==
    \/ \E problem \in ApiProblems, mode \in ApiModes, options \in ApiOptions :
          analyzeProblemStart(problem, mode, options)
    \/ \E req \in BagToSet(awaiting) : analyzeProblemFinish(req)
    \/ \E id \in ApiIds : apiGetSessionStatus(id)
    \/ \E id \in ApiIds : apiRevealSolutionStart(id)
    \/ \E req \in BagToSet(awaiting) : apiRevealSolutionFinish(req)
    \/ \E id \in ApiIds : apiEndSession(id)

SpecApi == Init /\ [][ApiNext]_vars

(* The interview turns of one caller on one session identifier, with the
   requests that reveal and end the session. *)
TurnsNext ==
    \/ \E id \in CallerIds :
          analyzeProblemStart(<<"w">>, "interview",
                              [sessionId |-> id, revealSolution |-> FALSE])
    \/ \E req \in BagToSet(awaiting) : analyzeProblemFinish(req)
    \/ \E id \in CallerIds : apiRevealSolutionStart(id)
    \/ \E req \in BagToSet(awaiting) : apiRevealSolutionFinish(req)
    \/ \E id \in CallerIds : apiEndSession(id)

SpecTurns == Init /\ [][TurnsNext]_vars

(* The controller beside the timer of the Session Manager: interview turns
   of one caller, reveal and end requests, the sweep the service runs every
   five minutes, and the clock.  The timer fires again and again, the clock
   moves on and a suspended handler is resumed; no client is bound to send
   a request. *)
ExpiryNext ==
    \/ \E id \in CallerIds :
          analyzeProblemStart(<<"w">>, "interview",
                              [sessionId |-> id, revealSolution |-> FALSE])
    \/ \E req \in BagToSet(awaiting) : analyzeProblemFinish(req)
    \/ \E id \in CallerIds : apiRevealSolutionStart(id)
    \/ \E req \in BagToSet(awaiting) : apiRevealSolutionFinish(req)
    \/ \E id \in CallerIds : apiEndSession(id)
    \/ cleanupExpiredSessions
    \/ Tick

ExpiryFairness ==
    /\ WF_vars(cleanupExpiredSessions)
    /\ WF_vars(Tick)
    /\ WF_vars(\E req \in BagToSet(awaiting) : analyzeProblemFinish(req))
    /\ WF_vars(\E req \in BagToSet(awaiting) : apiRevealSolutionFinish(req))

SpecExpiry == Init /\ [][ExpiryNext]_vars /\ ExpiryFairness

----------------------------------------------------------------------------
(* FAISSService *)

topK == 5     \* FAISSService.topK, no environment variable set

(* The documents given to the index and the queries searched for. *)
IndexDocuments == {Documents[1], Documents[3]}
Queries == {<<"q1">>, <<"q2">>}

(* documentToText(doc): the labelled fields that are not empty, one a line. *)
documentToText(doc) ==
    join(SelectSeq(
           << IF doc.title # << >> THEN <<"Title: ">> \o doc.title ELSE << >>,
              IF doc.problem # << >> THEN <<"Problem: ">> \o doc.problem ELSE << >>,
              IF doc.approach # << >> THEN <<"Approach: ">> \o doc.approach ELSE << >>,
              IF doc.tags # << >>
                 THEN <<"Tags: ">> \o join([i \in 1..Len(doc.tags) |-> <<doc.tags[i]>>],
                                            <<", ">>)
                 ELSE << >>,
              IF doc.difficulty # << >> THEN <<"Difficulty: ">> \o doc.difficulty
                 ELSE << >> >>,
           LAMBDA part : part # << >>),
         <<"\n">>)

(* embeddingService.embed(text), when it succeeds: the vector of the text,
   not yet of unit length. *)
embed(text) == [of |-> text, unit |-> FALSE]

(* normalizeVector(vector) *)
normalizeVector(vector) == [vector EXCEPT !.unit = TRUE]

TwoSumText == documentToText(Documents[1])

(* The inner product of two unit vectors, in hundredths: the cosine
   similarity of the texts they embed. *)
Similarity(a, b) ==
    CASE a = <<"q1">> /\ b = TwoSumText -> 90
      [] a = <<"q1">>                    -> 65
      [] b = TwoSumText                  -> 40
      [] OTHER                           -> 70

innerProduct(u, v) == Similarity(u.of, v.of)

(* index.search(query, k) of IndexFlatIP: the positions of the k vectors
   nearest to the query, nearest first, equal scores by position; a
   position past the last vector is the label -1 of the library, here 0. *)
Nearer(vectors, query, i, j) ==
    \/ innerProduct(query, vectors[i]) > innerProduct(query, vectors[j])
    \/ innerProduct(query, vectors[i]) = innerProduct(query, vectors[j]) /\ i < j

indexSearch(vectors, query, k) ==
    [n \in 1..k |->
        IF n > Len(vectors) THEN [label |-> 0, distance |-> 0]
        ELSE LET i == CHOOSE c \in 1..Len(vectors) :
                          Cardinality({j \in 1..Len(vectors) :
                                          Nearer(vectors, query, j, c)}) = n - 1
             IN  [label |-> i, distance |-> innerProduct(query, vectors[i])]]


(* A new IndexFlatIP in place of the index, and no documents. *)
emptied(f) == [f EXCEPT !.index = << >>, !.created = TRUE, !.documents = << >>]

(* loadIndex(): the service afterwards, and what the call returned.  Without
   a snapshot fs.access raises ENOENT and nothing is touched; the documents
   are assigned before the embeddings are looked at. *)
loadedIndex(f, d) ==
    IF ~d.snapshot THEN [faiss |-> f, loaded |-> FALSE]
    ELSE IF d.embeddings = << >>
    THEN [faiss |-> [f EXCEPT !.documents = d.documents], loaded |-> FALSE]
    ELSE [faiss |-> [f EXCEPT !.documents = d.documents,
                              !.created = TRUE,
                              !.index = [i \in 1..Len(d.embeddings) |->
                                            normalizeVector(d.embeddings[i])]],
          loaded |-> TRUE]

(* initialized() *)
initialized(f, d) ==
    LET l == loadedIndex(f, d)
    IN  IF l.loaded THEN [l.faiss EXCEPT !.isInitialized = TRUE]
        ELSE [emptied(l.faiss) EXCEPT !.isInitialized = TRUE]

ensured(f, d) == IF f.isInitialized THEN f ELSE initialized(f, d)

(* saveIndex(embeddings): all the documents of the service with the
   embeddings it is given; a failed write is logged and leaves the file. *)
savedIndex(f, d, embeddings, written) ==
    IF written
    THEN [d EXCEPT !.snapshot = TRUE, !.documents = f.documents,
                   !.embeddings = embeddings]
    ELSE d

(* addDocuments(documents): the embedding of the document at failAt raises
   (0: none does); the documents before it are in the index and in the
   list, and the snapshot is written only after the last one. *)
addedDocuments(f, d, documents, failAt, written) ==
    LET f0    == ensured(f, d)
        n     == IF failAt = 0 THEN Len(documents) ELSE failAt - 1
        added == SubSeq(documents, 1, n)
        embeddings == [i \in 1..n |-> embed(documentToText(added[i]))]
        f1    == [f0 EXCEPT !.index = f0.index \o
                                [i \in 1..n |-> normalizeVector(embeddings[i])],
                            !.documents = f0.documents \o added]
    IN  IF failAt # 0 THEN [faiss |-> f1, disk |-> d, threw |-> TRUE]
        ELSE [faiss |-> f1, disk |-> savedIndex(f1, d, embeddings, written),
              threw |-> FALSE]

(* reset(): the unlink of indexPath comes first; when that file does not
   exist it raises and the snapshot is not unlinked. *)
resetIndex(f, d) ==
    [faiss |-> emptied(f),
     disk  |-> IF d.indexFile THEN NoFiles ELSE d]

(* Mutant: a result whose score equals the threshold is dropped. *)
relevantAbove(results, threshold) ==
    SelectSeq(results, LAMBDA r : r.score > threshold)

(* results.filter(r => r.score >= threshold) *)
relevant(results, threshold) ==
    SelectSeq(results, LAMBDA r : r.score >= threshold)

(* Mutant: the document of a hit is looked up at its rank. *)
pairedByRank(f, hits) ==
    LET inRange == SelectSeq(hits, LAMBDA h : h.label >= 1 /\ h.label <= Len(f.documents))
    IN  [n \in 1..Len(inRange) |->
            [document |-> f.documents[CHOOSE r \in 1..Len(hits) :
                                          hits[r].label = inRange[n].label],
             score |-> inRange[n].distance,
             rank |-> CHOOSE r \in 1..Len(hits) : hits[r].label = inRange[n].label]]

(* The loop over result.labels: a label within the documents gives the
   document at that position, the distance and the place in the answer. *)
paired(f, hits) ==
    LET inRange == SelectSeq(hits, LAMBDA h : h.label >= 1 /\ h.label <= Len(f.documents))
    IN  [n \in 1..Len(inRange) |->
            [document |-> f.documents[inRange[n].label],
             score |-> inRange[n].distance,
             rank |-> CHOOSE r \in 1..Len(hits) : hits[r].label = inRange[n].label]]

(* search from the return of the embedding on, with the k computed before
   it: the scan of this.index, the lookup in this.documents and the filter,
   all on the service as it is then. *)
scanned(f, query, kk, padded) ==
    IF kk > Len(f.index) /\ ~padded THEN << >>
    ELSE relevant(paired(f, indexSearch(f.index, normalizeVector(embed(query)), kk)),
                  f.similarityThreshold)

(* search(query, k): the service afterwards and the results.  The embedding
   of the query can raise; the library raises when asked for more
   neighbours than it holds vectors, or pads the labels. *)
searchedIndex(f, d, query, k, embedded, padded) ==
    LET f0 == ensured(f, d)
        kk == min(IF k # 0 THEN k ELSE topK, Len(f0.documents))
    IN  [faiss |-> f0,
         results |->
            IF f0.documents = << >> THEN << >>
            ELSE IF ~embedded THEN << >>
            ELSE scanned(f0, query, kk, padded)]

(* The lists of documents given to addDocuments and found in the dataset. *)
RECURSIVE Batches(_)
Batches(n) ==
    IF n = 0 THEN {<< >>}
    ELSE Batches(n - 1) \cup
         {Append(b, doc) : b \in {c \in Batches(n - 1) : Len(c) = n - 1},
                           doc \in IndexDocuments}

DocumentLists == Batches(MaxBatch)

IndexFrame == UNCHANGED <<smVars, now, ragVars, apiVars, parserVars, embedVars, overlapVars>>

initialize ==
    /\ faiss' = initialized(faiss, disk)
    /\ UNCHANGED <<disk, found>>
    /\ IndexFrame

loadIndex ==
    /\ faiss' = loadedIndex(faiss, disk).faiss
    /\ UNCHANGED <<disk, found>>
    /\ IndexFrame

addDocuments(documents, failAt, written) ==
    LET r == addedDocuments(faiss, disk, documents, failAt, written)
    IN  /\ failAt <= Len(documents)
        /\ Len(r.faiss.documents) <= MaxIndexDocs
        /\ Len(r.faiss.index) <= MaxIndexDocs
        /\ faiss' = r.faiss
        /\ disk' = r.disk
        /\ UNCHANGED found
        /\ IndexFrame

faissSearch(query, k, embedded, padded) ==
    LET r == searchedIndex(faiss, disk, query, k, embedded, padded)
    IN  /\ ~found.called
        /\ padded \/ min(IF k # 0 THEN k ELSE topK, Len(r.faiss.documents))
                         > Len(r.faiss.index)
        /\ faiss' = r.faiss
        /\ found' = [called |-> TRUE, query |-> query, k |-> k,
                     embedded |-> embedded, padded |-> padded,
                     results |-> r.results]
        /\ UNCHANGED disk
        /\ IndexFrame

reset ==
    LET r == resetIndex(faiss, disk)
    IN  /\ faiss' = r.faiss
        /\ disk' = r.disk
        /\ UNCHANGED found
        /\ IndexFrame

(* RAGPipeline.rebuildIndex(): reset, then loadDataset, which adds the
   problems of a dataset that is not empty and catches what that raises. *)
rebuildIndex(dataset, failAt, written) ==
    LET r == resetIndex(faiss, disk)
        a == IF dataset = << >> THEN r
             ELSE addedDocuments(r.faiss, r.disk, dataset, failAt, written)
    IN  /\ failAt <= Len(dataset)
        /\ Len(a.faiss.documents) <= MaxIndexDocs
        /\ Len(a.faiss.index) <= MaxIndexDocs
        /\ faiss' = a.faiss
        /\ disk' = a.disk
        /\ UNCHANGED found
        /\ IndexFrame

(* The process ends and a new one constructs the service; the files stay. *)
restart ==
    /\ faiss' = newFAISSService(faiss.configured)
    /\ UNCHANGED <<disk, found>>
    /\ IndexFrame

IndexNext ==
    \/ initialize
    \/ loadIndex
    \/ \E documents \in DocumentLists, failAt \in 0..MaxBatch, written \in BOOLEAN :
          addDocuments(documents, failAt, written)
    \/ reset
    \/ \E dataset \in DocumentLists, failAt \in 0..MaxBatch, written \in BOOLEAN :
          rebuildIndex(dataset, failAt, written)
    \/ restart

(* The service is constructed over a data directory in which a file at
   indexPath may have been left. *)
IndexInit ==
    /\ ServiceInit /\ ControllerInit /\ ParserInit
    /\ faiss = newFAISSService(NotSet)
    /\ disk \in {NoFiles, [NoFiles EXCEPT !.indexFile = TRUE]}
    /\ found = NoCall

SpecIndex == IndexInit /\ [][IndexNext]_vars

(* Searches.  The service was constructed under one of the threshold
   settings and has indexed a list of documents in one addDocuments call;
   the search meets that service, or one constructed anew over its
   snapshot. *)
ThresholdSettings == {NotSet, Setting(0), Setting(50), Setting(90)}
Ks == {0, 1, 2}

Populated(env, documents) ==
    addedDocuments(newFAISSService(env), NoFiles, documents, 0, TRUE)

SearchInit ==
    /\ ServiceInit /\ ControllerInit /\ ParserInit
    /\ found = NoCall
    /\ \E env \in ThresholdSettings, documents \in DocumentLists, anew \in BOOLEAN :
          LET p == Populated(env, documents)
          IN  /\ faiss = IF anew THEN newFAISSService(env) ELSE p.faiss
              /\ disk = p.disk

SearchNext ==
    \E query \in Queries, k \in Ks, embedded \in BOOLEAN, padded \in BOOLEAN :
        faissSearch(query, k, embedded, padded)

SpecSearch == SearchInit /\ [][SearchNext]_vars

----------------------------------------------------------------------------
(* FAISSService calls that overlap.  search and addDocuments are suspended
   at each embeddingService.embed; what they read, they read when they are
   resumed.  The service has been initialized, so the files are not read
   again and no call awaits initialize(). *)

(* As many calls of the index are suspended at one time as there are
   connections. *)
MaxSuspended == Cardinality(Connections)

(* The lists given to addDocuments and found in the dataset while searches
   are suspended. *)
OverlapLists == { <<Documents[3]>>, <<Documents[3], Documents[1]>> }

OverlapFrame == UNCHANGED <<smVars, now, ragVars, apiVars, parserVars, embedVars>>

(* search(query, k) up to its await: without documents it returns [] at
   once; k is settled before the embedding is asked for. *)
searchStart(query, k) ==
    /\ faiss.isInitialized
    /\ IF faiss.documents = << >>
       THEN /\ found' = [called |-> TRUE, query |-> query, k |-> 0,
                         vectors |-> Len(faiss.index), results |-> << >>]
            /\ UNCHANGED searching
       ELSE LET s == [op |-> "search", query |-> query,
                      k |-> min(IF k # 0 THEN k ELSE topK, Len(faiss.documents))]
            IN  /\ s \notin searching
                /\ Cardinality(searching) < MaxSuspended
                /\ searching' = searching \cup {s}
                /\ UNCHANGED found
    /\ UNCHANGED <<faiss, disk>>
    /\ OverlapFrame

(* search from its await on: a failed embedding is caught and gives []. *)
searchFinish(s, embedded, padded) ==
    /\ s \in searching /\ s.op = "search"
    /\ searching' = searching \ {s}
    /\ found' = [called |-> TRUE, query |-> s.query, k |-> s.k,
                 vectors |-> Len(faiss.index),
                 results |-> IF embedded THEN scanned(faiss, s.query, s.k, padded)
                             ELSE << >>]
    /\ UNCHANGED <<faiss, disk>>
    /\ OverlapFrame

(* addDocuments(documents) up to the embedding of its first document. *)
addDocumentsStart(documents) ==
    /\ faiss.isInitialized
    /\ documents # << >>
    /\ LET a == [op |-> "addDocuments", documents |-> documents, i |-> 1,
                 embeddings |-> << >>]
       IN  /\ a \notin searching
           /\ Cardinality(searching) < MaxSuspended
           /\ searching' = searching \cup {a}
    /\ UNCHANGED <<faiss, disk, found>>
    /\ OverlapFrame

(* The embedding of document i has come: the vector and the document are
   appended in one turn, and after the last document the snapshot is
   written; a failed embedding ends the call. *)
addDocumentsStep(a, ok, written) ==
    /\ a \in searching /\ a.op = "addDocuments"
    /\ IF ~ok
       THEN /\ searching' = searching \ {a}
            /\ UNCHANGED <<faiss, disk>>
       ELSE LET doc       == a.documents[a.i]
                embedding == embed(documentToText(doc))
                f1 == [faiss EXCEPT !.index = Append(@, normalizeVector(embedding)),
                                    !.documents = Append(@, doc)]
                a1 == [a EXCEPT !.i = @ + 1, !.embeddings = Append(@, embedding)]
            IN  /\ Len(faiss.documents) < MaxIndexDocs
                /\ faiss' = f1
                /\ IF a.i = Len(a.documents)
                   THEN /\ searching' = searching \ {a}
                        /\ disk' = savedIndex(f1, disk, a1.embeddings, written)
                   ELSE /\ a1 \notin searching
                        /\ searching' = (searching \ {a}) \cup {a1}
                        /\ UNCHANGED disk
    /\ UNCHANGED found
    /\ OverlapFrame

(* RAGPipeline.rebuildIndex(): reset(), then the dataset is read and given
   to addDocuments. *)
rebuildIndexStart(dataset) ==
    /\ faiss.isInitialized
    /\ LET r == resetIndex(faiss, disk)
           a == [op |-> "addDocuments", documents |-> dataset, i |-> 1,
                 embeddings |-> << >>]
       IN  /\ faiss' = r.faiss
           /\ disk' = r.disk
           /\ IF dataset = << >> THEN UNCHANGED searching
              ELSE /\ a \notin searching
                   /\ Cardinality(searching) < MaxSuspended
                   /\ searching' = searching \cup {a}
    /\ UNCHANGED found
    /\ OverlapFrame

(* reset() *)
resetOverlapping ==
    /\ faiss.isInitialized
    /\ faiss' = resetIndex(faiss, disk).faiss
    /\ disk' = resetIndex(faiss, disk).disk
    /\ UNCHANGED <<found, searching>>
    /\ OverlapFrame

OverlapNext ==
    \/ \E query \in Queries, k \in Ks : searchStart(query, k)
    \/ \E s \in searching, embedded \in BOOLEAN, padded \in BOOLEAN :
          searchFinish(s, embedded, padded)
    \/ \E documents \in OverlapLists : addDocumentsStart(documents)
    \/ \E a \in searching, ok \in BOOLEAN : addDocumentsStep(a, ok, TRUE)
    \/ \E dataset \in OverlapLists \cup {<< >>} : rebuildIndexStart(dataset)
    \/ resetOverlapping

(* The service has indexed two documents in one addDocuments call, under
   the default threshold; the snapshot is written whenever it is saved. *)
OverlapInit ==
    /\ ServiceInit /\ ControllerInit /\ ParserInit
    /\ found = NoCall
    /\ LET p == Populated(NotSet, <<Documents[1], Documents[3]>>)
       IN  /\ faiss = p.faiss
           /\ disk = p.disk

SpecOverlap == OverlapInit /\ [][OverlapNext]_vars

----------------------------------------------------------------------------
(* EmbeddingService *)

MaxCalls == 2     \* embed and embedBatch calls made in one process

(* The texts embedded, as the UTF-16 code units charCodeAt reads: "Aa",
   "BB" and "C". *)
EmbedTexts == { <<65, 97>>, <<66, 66>>, <<67>> }

(* The lists given to embedBatch: two different texts. *)
TextLists == {l \in {<<t, u>> : t \in EmbedTexts, u \in EmbedTexts} : l[1] # l[2]}

(* hashText(text): hash = ((hash << 5) - hash) + char, kept to 32 bits by
   hash & hash; the integers of the model are 32 bits wide, and the texts
   above stay far below 2^31.  toString() of the number is the key. *)
RECURSIVE hashFrom(_, _, _)
hashFrom(text, i, hash) ==
    IF i > Len(text) THEN hash
    ELSE hashFrom(text, i + 1, ((hash * 32) - hash) + text[i])

hashText(text) == hashFrom(text, 1, 0)

(* What the two providers resolve to for a text. *)
pythonEmbedding(text) == [of |-> text, by |-> "python"]
ollamaEmbedding(text) == [of |-> text, by |-> "ollama"]

(* The provider a call waits for. *)
waitsFor(c) ==
    CASE c.at \in {"embedWithPython", "embedBatchWithPython"} -> "python"
      [] c.at \in {"embedWithOllama", "fallback"}             -> "ollama"
      [] OTHER                                                -> ""

(* A call runs embed(texts[i]) up to its first request: a cached key
   returns the cached vector and the call goes on to its next text;
   otherwise the provider is chosen by usePython. *)
RECURSIVE embedCalled(_, _)
RECURSIVE embedReturned(_, _, _)
embedCalled(e, c) ==
    LET cacheKey == hashText(c.texts[c.i])
    IN  IF cacheKey \in DOMAIN e.cache
        THEN embedReturned(e, c, e.cache[cacheKey])
        ELSE [c EXCEPT !.at = IF e.usePython THEN "embedWithPython"
                              ELSE "embedWithOllama"]

embedReturned(e, c, embedding) ==
    LET pushed == [c EXCEPT !.embeddings = Append(@, embedding)]
    IN  IF c.i = Len(c.texts) THEN [pushed EXCEPT !.at = "resolved"]
        ELSE embedCalled(e, [pushed EXCEPT !.i = @ + 1])

(* this.cache.set(cacheKey, embedding) *)
cached(e, text, embedding) ==
    [e EXCEPT !.cache = (hashText(text) :> embedding) @@ @]

(* Mutant: a failed batch leaves the provider as it was. *)
batchFailedKeepingPython(e) == e

(* The catch block of embedBatch. *)
batchFailed(e) == [e EXCEPT !.usePython = FALSE]

(* The catch block of embed, entered by the call c: the first failure
   under usePython switches the provider and asks Ollama, outside the try;
   otherwise the error is thrown again. *)
embedCaught(e, c, message) ==
    IF e.usePython
    THEN [service |-> [e EXCEPT !.usePython = FALSE],
          call    |-> [c EXCEPT !.at = "fallback"]]
    ELSE [service |-> e,
          call    |-> [c EXCEPT !.at = "rejected", !.error = message]]

(* The service after a step of the call id that ended a request on the
   provider failed ("" when it did not fail) and left the call as c. *)
stepped(e, id, c, failed) ==
    [e EXCEPT !.calls = (id :> c) @@ @,
              !.last  = [call |-> id, failed |-> failed, attempted |-> waitsFor(c)]]

newCall(op, texts) ==
    [op |-> op, texts |-> texts, i |-> 1, at |-> "", embeddings |-> << >>,
     error |-> ""]

EmbedFrame == UNCHANGED <<smVars, now, ragVars, apiVars, indexVars, parserVars,
                          overlapVars>>

(* embed(text) *)
embedStart(text) ==
    /\ Len(embedder.calls) < MaxCalls
    /\ embedder' = stepped(embedder, Len(embedder.calls) + 1,
                           embedCalled(embedder, newCall("embed", <<text>>)), "")
    /\ EmbedFrame

(* embedBatch(texts) *)
embedBatchStart(texts) ==
    /\ Len(embedder.calls) < MaxCalls
    /\ embedder' = stepped(embedder, Len(embedder.calls) + 1,
                           IF embedder.usePython
                           THEN [newCall("embedBatch", texts)
                                    EXCEPT !.at = "embedBatchWithPython"]
                           ELSE embedCalled(embedder, newCall("embedBatch", texts)),
                           "")
    /\ EmbedFrame

(* embedWithPython(text) of the call id resolves or rejects. *)
embedWithPythonSettles(id, ok) ==
    /\ id \in DOMAIN embedder.calls
    /\ embedder.calls[id].at = "embedWithPython"
    /\ LET c    == embedder.calls[id]
           text == c.texts[c.i]
       IN  IF ok
           THEN LET e == cached(embedder, text, pythonEmbedding(text))
                IN  embedder' = stepped(e, id,
                                        embedReturned(e, c, pythonEmbedding(text)), "")
           ELSE LET caught == embedCaught(embedder, c, "Python embedding failed")
                IN  embedder' = stepped(caught.service, id, caught.call, "python")
    /\ EmbedFrame

(* embedWithOllama(text) of the call id resolves or rejects, inside the try
   block or in the catch block. *)
embedWithOllamaSettles(id, ok) ==
    /\ id \in DOMAIN embedder.calls
    /\ embedder.calls[id].at \in {"embedWithOllama", "fallback"}
    /\ LET c    == embedder.calls[id]
           text == c.texts[c.i]
       IN  IF ok
           THEN LET e == IF c.at = "embedWithOllama"
                         THEN cached(embedder, text, ollamaEmbedding(text))
                         ELSE embedder
                IN  embedder' = stepped(e, id,
                                        embedReturned(e, c, ollamaEmbedding(text)), "")
           ELSE IF c.at = "embedWithOllama"
           THEN LET caught == embedCaught(embedder, c, "Embedding generation failed")
                IN  embedder' = stepped(caught.service, id, caught.call, "ollama")
           ELSE embedder' = stepped(embedder, id,
                                    [c EXCEPT !.at = "rejected",
                                              !.error = "Embedding generation failed"],
                                    "ollama")
    /\ EmbedFrame

(* embedBatchWithPython(texts) of the call id resolves or rejects. *)
embedBatchWithPythonSettles(id, ok) ==
    /\ id \in DOMAIN embedder.calls
    /\ embedder.calls[id].at = "embedBatchWithPython"
    /\ LET c == embedder.calls[id]
       IN  IF ok
           THEN embedder' = stepped(embedder, id,
                                    [c EXCEPT !.at = "resolved",
                                              !.embeddings =
                                                  [i \in 1..Len(c.texts) |->
                                                      pythonEmbedding(c.texts[i])]],
                                    "")
           ELSE LET e == batchFailed(embedder)
                IN  embedder' = stepped(e, id, embedCalled(e, c), "python")
    /\ EmbedFrame

EmbedNext ==
    \/ \E text \in EmbedTexts : embedStart(text)
    \/ \E texts \in TextLists : embedBatchStart(texts)
    \/ \E id \in 1..MaxCalls, ok \in BOOLEAN : embedWithPythonSettles(id, ok)
    \/ \E id \in 1..MaxCalls, ok \in BOOLEAN : embedWithOllamaSettles(id, ok)
    \/ \E id \in 1..MaxCalls, ok \in BOOLEAN : embedBatchWithPythonSettles(id, ok)

SpecEmbed == Init /\ [][EmbedNext]_vars

----------------------------------------------------------------------------
(* Replies of the completion provider: parseStructuredResponse,
   parseEvaluationResponse, RAGPipeline.evaluateCode and the evaluate
   controller *)

MaxReplyLen == 3

(* All texts of at most n tokens drawn from tokens. *)
RECURSIVE TextsOver(_, _)
TextsOver(tokens, n) ==
    IF n = 0 THEN {<< >>}
    ELSE LET shorter == TextsOver(tokens, n - 1)
         IN  shorter \cup {Append(text, t) : text \in shorter, t \in tokens}

AnalysisTokens ==
    {Heading[1], Heading[2], Heading[6], Bullet, "w", Newline,
     JavaFence, Fence, FollowUpLine}

(* What parseStructuredResponse is called with: a text, or a value that is
   not a string (the reply of a provider without content is undefined). *)
AnalysisReplies ==
    {Str(text) : text \in TextsOver(AnalysisTokens, MaxReplyLen)}
        \cup {Null, Undefined, Num(5)}

ReplyFrame == UNCHANGED <<smVars, now, ragVars, apiVars, indexVars, embedVars,
                          overlapVars>>

(* One call of parseStructuredResponse, followed from the initial state. *)
parseResponse(llmResponse) ==
    /\ ~parse.called /\ ~evaluation.called
    /\ parse' = [called |-> TRUE,
                 llmResponse |-> llmResponse,
                 raised |-> ~IsString(llmResponse),
                 sections |-> parseStructuredResponse(llmResponse)]
    /\ UNCHANGED evaluation
    /\ ReplyFrame

(* Objects, and reading a property of a value that is neither null nor
   undefined: a number, a string or an array has none of the names here. *)
Obj(fields) == [object |-> fields]
IsObject(value) == "object" \in DOMAIN value
get(value, name) ==
    IF IsObject(value) /\ name \in DOMAIN value.object
    THEN value.object[name]
    ELSE Undefined

(* The JSON texts among the tokens of an evaluation reply and their values. *)
RubricJson  == "{rubric}"      \* the object of the output format, score 7
VerdictJson == "{verdict}"     \* an object without the fields of the format

criterion(score, feedback) ==
    Obj([score |-> Num(score), feedback |-> Str(<<feedback>>)])

Rubric ==
    Obj([score |-> Num(7),
         breakdown |-> Obj([correctness |-> criterion(3, "ok"),
                            time_complexity |-> criterion(2, "ok"),
                            space_complexity |-> criterion(1, "ok"),
                            code_quality |-> criterion(1, "ok"),
                            edge_cases |-> criterion(0, "ok")]),
         suggestions |-> Arr(<<Str(<<"w">>)>>),
         optimal_solution_hint |-> Str(<<"w">>)])

JsonValue(token) ==
    CASE token = "null"      -> Null
      [] token = "7"         -> Num(7)
      [] token = VerdictJson -> Obj([verdict |-> Str(<<"ok">>)])
      [] token = RubricJson  -> Rubric

JsonTokens == {"null", "7", VerdictJson, RubricJson}

(* JSON.parse(text): one JSON value between optional whitespace, else a
   SyntaxError. *)
JSONparse(text) ==
    LET t == trim(text)
    IN  IF Len(t) = 1 /\ t[1] \in JsonTokens
        THEN [threw |-> FALSE, value |-> JsonValue(t[1])]
        ELSE [threw |-> TRUE]

(* The record of the catch block of parseEvaluationResponse. *)
defaultEvaluation(llmResponse) ==
    Obj([score |-> Num(0),
         breakdown |-> Obj([correctness |-> criterion(0, "Unable to evaluate"),
                            time_complexity |-> criterion(0, "Unable to evaluate"),
                            space_complexity |-> criterion(0, "Unable to evaluate"),
                            code_quality |-> criterion(0, "Unable to evaluate"),
                            edge_cases |-> criterion(0, "Unable to evaluate")]),
         suggestions |-> Arr(<<Str(<<"Unable to parse evaluation response">>)>>),
         optimal_solution_hint |-> Str(<< >>),
         raw_response |-> llmResponse])

(* parseEvaluationResponse(llmResponse): the value of the fenced json block
   if there is one, else of the whole reply; the default record when match
   or JSON.parse raises. *)
parseEvaluationResponse(llmResponse) ==
    LET m == fenced(llmResponse.string, JsonFence)
        parsed == JSONparse(IF m.matched THEN m.group ELSE llmResponse.string)
    IN  IF ~IsString(llmResponse) THEN defaultEvaluation(llmResponse)
        ELSE IF parsed.threw THEN defaultEvaluation(llmResponse)
        ELSE parsed.value

(* RAGPipeline.evaluateCode(problem, code): the result for what
   ollamaService.generate returned after duration milliseconds. *)
evaluated(llmResult, duration) ==
    IF llmResult.success
    THEN [success |-> TRUE,
          evaluation |-> parseEvaluationResponse(llmResult.response),
          metadata |-> [duration_ms |-> duration,
                        model |-> llmResult.metadata.model]]
    ELSE [success |-> FALSE,
          error |-> llmResult.error,
          evaluation |-> Obj([score |-> Num(0),
                              message |-> Str(<<"Evaluation failed">>)]),
          metadata |-> [duration_ms |-> duration]]

MAX_SCORE == 10

(* evaluation.score || 0 *)
totalScore(value) ==
    LET score == get(value, "score")
    IN  IF "number" \in DOMAIN score THEN score.number ELSE 0

grade(score) ==
    CASE score >= 9 -> "Excellent"
      [] score < 9 /\ score >= 7 -> "Good"
      [] score < 7 /\ score >= 5 -> "Fair"
      [] score < 5 /\ score >= 3 -> "Needs Improvement"
      [] OTHER -> "Insufficient"

(* value || fallback, for the values a reply can hold under these names *)
falsyOr(value, fallback) ==
    IF value \in {Undefined, Null, Str(<< >>), Num(0)} THEN fallback ELSE value

(* The response of the controller to the result of the pipeline. *)
evaluateResponse(result) ==
    IF ~result.success
    THEN apiError("evaluateCode", result.error, 500)
    ELSE IF result.evaluation \in {Null, Undefined}
    THEN apiError("evaluateCode",
                  "Cannot read properties of null (reading 'score')", 500)
    ELSE json("evaluateCode",
              [success |-> TRUE,
               score |-> totalScore(result.evaluation),
               maxScore |-> MAX_SCORE,
               grade |-> grade(totalScore(result.evaluation)),
               breakdown |-> get(result.evaluation, "breakdown"),
               suggestions |-> falsyOr(get(result.evaluation, "suggestions"), Arr(<< >>)),
               optimal_solution_hint |->
                   falsyOr(get(result.evaluation, "optimal_solution_hint"), Str(<< >>)),
               metadata |-> result.metadata])

EvaluationTokens == {JsonFence, Fence, Newline, "w"} \cup JsonTokens

(* What generate returns: a reply, a reply without a response, a failure. *)
GenerateResults ==
    {[success |-> TRUE, response |-> Str(text), metadata |-> [model |-> "llama3"]] :
        text \in TextsOver(EvaluationTokens, MaxReplyLen)}
    \cup {[success |-> TRUE, response |-> Undefined,
           metadata |-> [model |-> "llama3"]],
          [success |-> FALSE, error |-> "connect ECONNREFUSED",
           metadata |-> [model |-> "llama3"]]}

Codes == {<<"w">>, <<" ">>, <<"mode">>}

minCodeChars == 10    \* the least length of the code

(* POST /api/evaluate with a problem of ten characters: the validation of
   the code, the pipeline, the response. *)
evaluateCode(code, llmResult, duration) ==
    /\ ~parse.called /\ ~evaluation.called
    /\ llmResult \in GenerateResults
    /\ IF trim(code) = << >>
       THEN evaluation' = [called |-> TRUE, code |-> code, generated |-> FALSE,
                           res |-> apiError("evaluateCode",
                                            "Missing required fields: code", 400)]
       ELSE IF length(trim(code)) < minCodeChars
       THEN evaluation' = [called |-> TRUE, code |-> code, generated |-> FALSE,
                           res |-> apiError("evaluateCode",
                                            "Code must be at least 10 characters", 400)]
       ELSE evaluation' = [called |-> TRUE, code |-> code, generated |-> TRUE,
                           llmResult |-> llmResult,
                           result |-> evaluated(llmResult, duration),
                           res |-> evaluateResponse(evaluated(llmResult, duration))]
    /\ UNCHANGED parse
    /\ ReplyFrame

ReplyNext ==
    \/ \E llmResponse \in AnalysisReplies : parseResponse(llmResponse)
    \/ \E code \in Codes, llmResult \in GenerateResults, duration \in Durations :
          evaluateCode(code, llmResult, duration)

SpecReplies == Init /\ [][ReplyNext]_vars

----------------------------------------------------------------------------
(* Properties of the vector index *)

(* The vector at every position is the unit embedding of the document at
   that position, and there are as many vectors as documents. *)
Aligned(f) ==
    /\ Len(f.index) = Len(f.documents)
    /\ \A i \in 1..Len(f.documents) :
          f.index[i] = normalizeVector(embed(documentToText(f.documents[i])))

(* C15: in every reachable state of the service, after any sequence of
   initialize, loadIndex, addDocuments (also one aborted by an embedding
   failure), reset and rebuildIndex, there are as many stored vectors as
   stored documents and the vector at position i is the embedding of the
   document at position i. *)
C15_VectorsAlignedWithDocuments == Aligned(faiss)

(* What a search resolves to when the embedding of the query succeeds. *)
Results(f, d, query, k, padded) == searchedIndex(f, d, query, k, TRUE, padded).results

(* A service constructed anew over the files d answers every search as the
   service f does. *)
RoundTrip(f, d) ==
    \A query \in Queries, k \in Ks, padded \in BOOLEAN :
        Results(newFAISSService(f.configured), d, query, k, padded)
            = Results(f, d, query, k, padded)

(* An addDocuments call with documents has completed and written its
   snapshot. *)
SnapshotWritten ==
    \E documents \in DocumentLists \ {<< >>} : addDocuments(documents, 0, TRUE)

(* C16: once addDocuments calls, one or more, have populated the index and
   the snapshot is written, a fresh service that loads the snapshot returns
   for every query and k the same documents in the same order with the same
   scores as the service that saved it. *)
C16_SnapshotRoundTrip ==
    [][SnapshotWritten => RoundTrip(faiss', disk')]_vars

(* The number of neighbours search asks the index for. *)
Asked(f, k) == min(IF k = 0 THEN topK ELSE k, Len(f.documents))

(* The positions of the documents among the k vectors nearest to the query. *)
Candidates(f, query, k) ==
    {c \in 1..min(Len(f.index), Len(f.documents)) :
        Cardinality({j \in 1..Len(f.index) :
                        Nearer(f.index, normalizeVector(embed(query)), j, c)})
            < Asked(f, k)}

(* The embedding of the query and the search of the index both answered. *)
Answered ==
    /\ found.embedded
    /\ found.padded \/ Asked(faiss, found.k) <= Len(faiss.index)

(* C17: no result of a search has a score below the similarity threshold of
   the service, and every document among the k nearest to the query whose
   score is at or above the threshold is among the results. *)
C17_ResultsAreThoseAtOrAboveThreshold ==
    found.called =>
        /\ \A i \in 1..Len(found.results) :
              found.results[i].score >= faiss.similarityThreshold
        /\ Answered =>
              \A c \in Candidates(faiss, found.query, found.k) :
                  LET score == innerProduct(normalizeVector(embed(found.query)),
                                            faiss.index[c])
                  IN  score >= faiss.similarityThreshold =>
                          \E i \in 1..Len(found.results) :
                              /\ found.results[i].document = faiss.documents[c]
                              /\ found.results[i].score = score

(* A search over two documents has kept the one that scores 0.9 and dropped
   the one that scores 0.65, under the threshold 0.7. *)
C17_Witness ==
    /\ found.called /\ Answered
    /\ faiss.similarityThreshold = 70
    /\ Cardinality(Candidates(faiss, found.query, found.k)) = 2
    /\ Len(found.results) = 1
    /\ found.results[1].score = 90

(* The results of the search recorded in found, had the service been
   constructed under the threshold setting env over the same snapshot. *)
ResultsUnder(env) ==
    searchedIndex(newFAISSService(env), disk, found.query, found.k,
                  found.embedded, found.padded).results

(* C18: for a fixed query, k and corpus, every result of a search under a
   configured threshold is also a result of the same search under any lower
   configured threshold, 0 included. *)
C18_LowerThresholdOnlyAddsResults ==
    (found.called /\ faiss.configured.set) =>
        \A env \in ThresholdSettings :
            (env.set /\ env.value < faiss.configured.value) =>
                \A i \in 1..Len(found.results) :
                    \E j \in 1..Len(ResultsUnder(env)) :
                        ResultsUnder(env)[j] = found.results[i]

----------------------------------------------------------------------------
(* Properties of the reply parsers *)

SectionNames ==
    {"understanding", "brute_force", "optimized", "time_complexity",
     "space_complexity", "edge_cases", "java_code", "dry_run",
     "follow_up_questions", "common_mistakes", "variations"}

(* C19: parseStructuredResponse returns, for every input, a record of the
   eleven fields in which every field is defined; when the extraction
   raised, understanding holds the input and every other field its default. *)
C19_ParserReturnsElevenDefinedFields ==
    parse.called =>
        /\ DOMAIN parse.sections = SectionNames
        /\ \A name \in SectionNames : parse.sections[name] # Undefined
        /\ parse.raised =>
              /\ parse.sections.understanding = parse.llmResponse
              /\ \A name \in SectionNames \ {"understanding"} :
                    parse.sections[name] = emptySections[name]

Criteria ==
    {"correctness", "time_complexity", "space_complexity", "code_quality",
     "edge_cases"}

IsNumber(value) == "number" \in DOMAIN value

(* An overall score and a score for each of the five criteria. *)
IsRubric(value) ==
    /\ IsNumber(get(value, "score"))
    /\ \A c \in Criteria :
          IsNumber(get(get(get(value, "breakdown"), c), "score"))

(* C20: for every text returned by the provider the evaluation request is
   answered without an error, and the evaluation of the pipeline is a rubric
   record: the parsed reply, or the default record with every score 0. *)
C20_EvaluationIsAlwaysARubric ==
    (/\ evaluation.called /\ evaluation.generated
     /\ evaluation.llmResult.success
     /\ IsString(evaluation.llmResult.response)) =>
        /\ evaluation.res.status = 200
        /\ evaluation.result.success
        /\ IsRubric(evaluation.result.evaluation)
        /\ \/ evaluation.result.evaluation
                = defaultEvaluation(evaluation.llmResult.response)
           \/ evaluation.result.evaluation = Rubric

----------------------------------------------------------------------------
(* Properties of the pipeline *)

(* Interview intent: the mode interview, or the phrase "interview mode" in
   the problem in any letter case. *)
InterviewIntent(problem, options) ==
    \/ options.mode = "interview"
    \/ \E i \in 1..(Len(problem) - 2) :
          /\ problem[i] \in {"interview", "INTERVIEW"}
          /\ problem[i + 1] = " "
          /\ problem[i + 2] \in {"mode", "Mode"}

Guided(r) == InterviewIntent(r.problem, r.options) /\ ~r.options.revealSolution

(* The tokens of the problem and approach texts of the documents. *)
SolutionTokens ==
    UNION {{Documents[d].problem[i] : i \in 1..Len(Documents[d].problem)}
             \cup {Documents[d].approach[i] : i \in 1..Len(Documents[d].approach)}
           : d \in 1..Len(Documents)}

(* The results with the problem, approach and difficulty of every document
   blanked. *)
Redacted(results) ==
    [i \in 1..Len(results) |->
        [results[i] EXCEPT !.document.problem = << >>,
                           !.document.approach = << >>,
                           !.document.difficulty = << >>]]

TitleAndTags(doc) ==
    <<"Similar: ">> \o doc.title \o <<" - Tags: ">>
        \o (IF doc.tags = << >> THEN <<"N/A">>
            ELSE join([i \in 1..Len(doc.tags) |-> <<doc.tags[i]>>], <<", ">>))

(* C9: in an interview request without revealSolution the context asked for
   and rendered is the hints format, one title-and-tags line per result; no
   token of a document's problem or approach is in the prompt, and the
   prompt is the one the same request yields when those texts are blanked. *)
C9_InterviewPromptHidesSolutions ==
    (rag.called /\ Guided(rag)) =>
        /\ rag.retrieval.contextFormat = "hints"
        /\ rag.context = join([i \in 1..Len(rag.results) |->
                                  TitleAndTags(rag.results[i].document)],
                              <<"\n---\n">>)
        /\ \A i \in 1..Len(rag.userPrompt) : rag.userPrompt[i] \notin SolutionTokens
        /\ \A llmResult \in LlmResults :
              rag.userPrompt =
                 analyzed(rag.problem, rag.options, Found(Redacted(rag.results)),
                          llmResult, 0).userPrompt

(* An interview request detected from the phrase alone has put two results,
   one of them the document with the long approach, into its prompt. *)
C9_Witness ==
    /\ rag.called /\ Guided(rag)
    /\ rag.options.mode = "quick"
    /\ Len(rag.results) = 2
    /\ rag.results[1].document = Documents[2]
    /\ \E i \in 1..Len(rag.userPrompt) : rag.userPrompt[i] = "LRU Cache"

(* The parameter bundle a call has used. *)
UsedBundle(r) ==
    [maxTokens |-> r.chat.maxTokens, temperature |-> r.chat.temperature,
     topK |-> r.retrieval.topK, contextFormat |-> r.retrieval.contextFormat]

(* C10: analyzeProblem uses the interview bundle exactly when interview
   intent is detected and revealSolution is not requested, and the bundle of
   the requested mode otherwise. *)
C10_InterviewBundleUnlessReveal ==
    (rag.called /\ rag.chatted) =>
        UsedBundle(rag) = IF Guided(rag) THEN getModeConfig("interview")
                          ELSE getModeConfig(requestedMode(rag.options))

(* The four phases of a session. *)
SessionPhases == {phases[i] : i \in 1..Len(phases)}

(* C24: the interview prompt sent for a session phase carries the
   instruction of that phase: it differs from the prompt for every other
   session phase and from the prompt of the initial interaction, for the
   same problem and context. *)
C24_PromptCarriesPhaseInstruction ==
    (/\ rag.called /\ rag.chatted
     /\ rag.systemPrompt = "INTERVIEW_MODE_PROMPT"
     /\ rag.options.phase \in SessionPhases) =>
        /\ \A other \in SessionPhases \ {rag.options.phase} :
              rag.userPrompt
                  # generateInterviewPrompt(rag.problem, rag.context, other)
        /\ rag.userPrompt
              # generateInterviewPrompt(rag.problem, rag.context, "initial")

(* C25: an analyze request issues at most one request to the completion
   backend, and when a request to it fails the analyze result is a failure. *)
C25_OneCompletionRequestPerAnalyze ==
    rag.called =>
        /\ Len(rag.requests) <= 1
        /\ (\E i \in 1..Len(rag.requests) : rag.requests[i].status # 200) =>
               ~rag.result.success

(* The phase a request names, the initial one when it names none. *)
PhaseOf(options) == IF options.phase = "" THEN "initial" ELSE options.phase

(* C11: a successful analyzeProblem returns the raw reply as guidance tagged
   with the phase, unparsed, exactly when interview intent is detected and
   revealSolution is not requested, and the parsed structured response in
   every other case; the interview prompt is sent exactly when the guidance
   shape is returned, the analysis prompt exactly when the parsed one is. *)
C11_GuidanceShapeIffGuided ==
    (rag.called /\ rag.chatted) =>
        /\ (rag.systemPrompt = "INTERVIEW_MODE_PROMPT") <=> Guided(rag)
        /\ (rag.systemPrompt = "SYSTEM_PROMPT") <=> ~Guided(rag)
        /\ Head(rag.userPrompt) = rag.systemPrompt
        /\ rag.result.success =>
              rag.result.structured_response =
                  IF Guided(rag)
                  THEN [mode |-> "interview",
                        guidance |-> rag.llmResult.response,
                        phase |-> PhaseOf(rag.options)]
                  ELSE parseStructuredResponse(Str(rag.llmResult.response))

(* A request with the trigger phrase and revealSolution has succeeded: it
   sent the analysis prompt and returned a parsed response. *)
C11_Witness ==
    /\ rag.called /\ rag.chatted /\ rag.result.success
    /\ InterviewIntent(rag.problem, rag.options)
    /\ rag.options.mode # "interview"
    /\ rag.options.revealSolution
    /\ rag.systemPrompt = "SYSTEM_PROMPT"
    /\ "guidance" \notin DOMAIN rag.result.structured_response

(* The completion provider was called and reported success. *)
ProviderSucceeded(r) == r.chatted /\ r.llmResult.success

(* C12: analyzeProblem returns a result tagged success only when the
   completion provider reported success; when the provider failed, or a step
   raised before it was called, the result is tagged failure, carries the
   error message and the elapsed duration, and has no structured response. *)
C12_SuccessOnlyFromProvider ==
    rag.called =>
        /\ rag.result.success <=> ProviderSucceeded(rag)
        /\ ~ProviderSucceeded(rag) =>
              /\ rag.result.success = FALSE
              /\ rag.result.error =
                    IF rag.chatted THEN rag.llmResult.error
                    ELSE "Cannot read properties of undefined (reading 'toLowerCase')"
              /\ rag.result.metadata.duration_ms = rag.elapsed
              /\ DOMAIN rag.result = {"success", "error", "metadata"}

(* The completion provider has refused a detailed request 250 ms after the
   call began. *)
C12_Witness ==
    /\ rag.called /\ rag.chatted
    /\ ~rag.llmResult.success
    /\ rag.elapsed = 250
    /\ rag.result.error = "connect ECONNREFUSED"

(* The headings that open the context section of the two prompts. *)
ContextHeadings ==
    {"## REFERENCE (DO NOT REVEAL TO CANDIDATE)", "## SIMILAR PROBLEMS FOR REFERENCE"}

(* C13: when the embedding or the index raises during retrieval, the
   retrieval yields the empty context and no sources instead of an error;
   analyzeProblem still sends a prompt, one without a context section, to
   the completion provider, and succeeds whenever the provider does. *)
C13_RetrievalFailsSoft ==
    (rag.called /\ rag.searched /\ rag.search.kind # "results") =>
        /\ rag.chatted
        /\ rag.context = << >>
        /\ \A i \in 1..Len(rag.userPrompt) : rag.userPrompt[i] \notin ContextHeadings
        /\ rag.userPrompt =
              IF Guided(rag)
              THEN <<"INTERVIEW_MODE_PROMPT">> \o phaseInstruction(rag.options.phase)
                       \o <<"## PROBLEM">> \o rag.problem
              ELSE <<"SYSTEM_PROMPT", "## USER'S PROBLEM">> \o rag.problem
                       \o <<"## YOUR COMPREHENSIVE ANALYSIS">>
        /\ rag.result.success <=> rag.llmResult.success
        /\ rag.result.success => rag.result.sources = << >>

(* The embedding provider has failed during a detailed analysis that went on
   to succeed. *)
C13_Witness ==
    /\ rag.called /\ rag.searched
    /\ rag.search.kind = "embeddingError"
    /\ rag.options.mode = "detailed"
    /\ rag.result.success
    /\ rag.result.metadata.context_documents = 0

(* C14: analyzeProblem rejects an empty or undersized problem text with an
   error before any retrieval or completion call: for such a text neither
   the search nor the completion provider is invoked and the result is
   tagged failure. *)
C14_UndersizedProblemRejected ==
    (/\ rag.called
     /\ rag.argument = "string"
     /\ length(trim(rag.problem)) < minProblemChars) =>
        /\ ~rag.searched
        /\ ~rag.chatted
        /\ ~rag.result.success

----------------------------------------------------------------------------
(* Properties of the session state machine *)

present(id) == id \in DOMAIN sessions
stays(id)   == id \in DOMAIN sessions /\ id \in DOMAIN sessions'

(* The step is a call updateSession(id, _): every call on a known session
   returns a session it has changed, and the clock step leaves ret alone. *)
UpdateStep(id) == ret'.op = "updateSession" /\ ret'.id = id /\ ret' # ret

(* The step is a sweep. *)
CleanupStep == ret'.op = "cleanupExpiredSessions" /\ now' = now

(* C1: from a new session (understanding, counter 0) each updateSession moves
   the phase one step, understanding -> approach -> optimization -> reveal,
   the third call leaves the counter at 3, and a call on a session in reveal
   leaves it in reveal. *)
C1_ThreeAdvancesReachReveal ==
    [][\A id \in SessionIds :
          (present(id) /\ UpdateStep(id)) =>
             LET s == sessions[id]
                 t == sessions'[id]
             IN  /\ (s.phase = PHASE_UNDERSTANDING /\ s.interactions = 0)
                       => (t.phase = PHASE_APPROACH /\ t.interactions = 1)
                 /\ (s.phase = PHASE_APPROACH /\ s.interactions = 1)
                       => (t.phase = PHASE_OPTIMIZATION /\ t.interactions = 2)
                 /\ (s.phase = PHASE_OPTIMIZATION /\ s.interactions = 2)
                       => (t.phase = PHASE_REVEAL /\ t.interactions = 3)
                 /\ s.phase = PHASE_REVEAL => t.phase = PHASE_REVEAL]_vars

(* A fourth updateSession has returned a session in reveal while another
   session, advanced twice, is in optimization. *)
C1_Witness ==
    /\ ret.op = "updateSession" /\ ret.val # Null
    /\ ret.val.interactions = 4 /\ ret.val.phase = PHASE_REVEAL
    /\ \E id \in DOMAIN sessions :
          sessions[id].phase = PHASE_OPTIMIZATION /\ sessions[id].interactions = 2

(* C2: no operation moves a session to an earlier phase of the order
   understanding < approach < optimization < reveal; a session in reveal
   stays in reveal. *)
C2_PhaseNeverDecreases ==
    [][\A id \in SessionIds :
          stays(id) => indexOf(sessions'[id].phase) >= indexOf(sessions[id].phase)]_vars

(* updateSession has returned a session that was forced to reveal with its
   counter below the cap and is still in reveal. *)
C2_Witness ==
    /\ ret.op = "updateSession" /\ ret.val # Null
    /\ ret.val.interactions = 1 /\ ret.val.phase = PHASE_REVEAL

(* C3: a session whose counter has reached maxInteractions is in reveal. *)
C3_CapForcesReveal ==
    \A id \in DOMAIN sessions :
        sessions[id].interactions >= sessions[id].maxInteractions
            => sessions[id].phase = PHASE_REVEAL

C3_Witness ==
    \E id \in DOMAIN sessions :
        /\ sessions[id].maxInteractions = 3
        /\ sessions[id].interactions > sessions[id].maxInteractions

(* C4: the counter of a session grows by one in a step that is an
   updateSession on it and is unchanged by every other step. *)
C4_CounterCountsAdvances ==
    [][\A id \in SessionIds :
          stays(id) =>
             sessions'[id].interactions =
                sessions[id].interactions + (IF UpdateStep(id) THEN 1 ELSE 0)]_vars

(* revealSolution has returned a session whose counter is still 2. *)
C4_Witness ==
    /\ ret.op = "revealSolution" /\ ret.val # Null
    /\ ret.val.interactions = 2 /\ ret.val.phase = PHASE_REVEAL

(* The positions of a text that lie in an occurrence of the trigger: the word
   interview, any run of whitespace, the word mode, in any letter case. *)
TriggerSpans(p) ==
    {sp \in (1..Len(p)) \X (1..Len(p)) :
        /\ sp[1] < sp[2]
        /\ toLowerCase(p[sp[1]]) = "interview"
        /\ toLowerCase(p[sp[2]]) = "mode"
        /\ \A k \in (sp[1] + 1)..(sp[2] - 1) : p[k] = " "}

InTrigger(p) ==
    {k \in 1..Len(p) : \E sp \in TriggerSpans(p) : sp[1] <= k /\ k <= sp[2]}

(* The text without the positions in D. *)
Without(p, D) ==
    LET F[i \in 0..Len(p)] ==
            IF i = 0 THEN << >>
            ELSE IF i \in D THEN F[i - 1] ELSE Append(F[i - 1], p[i])
    IN  F[Len(p)]

(* The text from its first to its last token that is not whitespace. *)
Trimmed(q) ==
    LET ns == {i \in 1..Len(q) : q[i] # " "}
    IN  IF ns = {} THEN << >>
        ELSE SubSeq(q, CHOOSE i \in ns : \A j \in ns : i <= j,
                       CHOOSE i \in ns : \A j \in ns : i >= j)

CreateStep == ret'.op = "createSession" /\ uuids' # uuids

(* C5: createSession returns the session it has stored under an identifier
   never used before, in phase understanding with counter 0 and an empty
   transcript; its problem text is the argument without its occurrences of
   the trigger, trimmed; the sessions already stored are unchanged. *)
C5_CreateSessionInitialState ==
    /\ [](ret.op = "createSession" =>
            /\ present(ret.id) /\ sessions[ret.id] = ret.val
            /\ ret.val.id = ret.id
            /\ ret.val.phase = PHASE_UNDERSTANDING
            /\ ret.val.interactions = 0
            /\ ret.val.history = << >>
            /\ ret.val.problem = Trimmed(Without(ret.arg, InTrigger(ret.arg))))
    /\ [][CreateStep =>
            /\ ret'.id \notin {UuidSeq[i] : i \in 1..uuids}
            /\ DOMAIN sessions' = DOMAIN sessions \cup {ret'.id}
            /\ \A id \in DOMAIN sessions : sessions'[id] = sessions[id]]_vars

(* createSession has stripped an upper-case trigger from its argument while
   the map holds an older session that was forced to reveal. *)
C5_Witness ==
    /\ ret.op = "createSession"
    /\ ret.arg = <<"w", "INTERVIEW", "Mode">>
    /\ ret.val.problem = <<"w">>
    /\ \E id \in DOMAIN sessions :
          id # ret.id /\ sessions[id].phase = PHASE_REVEAL
                      /\ sessions[id].lastActivity < ret.val.startedAt

(* C6: updateSession on an identifier the map does not hold returns null and
   leaves the map, and every session in it, as it was. *)
C6_UnknownAdvanceIsNoOp ==
    [][\A id \in SessionIds :
          (UpdateStep(id) /\ ~present(id)) =>
             (ret'.val = Null /\ sessions' = sessions /\ uuids' = uuids)]_vars

(* updateSession has returned null while the map holds a session. *)
C6_Witness ==
    /\ ret.op = "updateSession" /\ ret.val = Null
    /\ sessions # << >>

(* C7: a sweep removes every session idle for longer than the timeout, a
   removed identifier never comes back, and updateSession and
   getSessionStatus return null exactly for identifiers the map lacks. *)
C7_ExpiredSessionsAreGone ==
    /\ [][CleanupStep =>
            \A id \in DOMAIN sessions :
                now - sessions[id].lastActivity > sessionTimeout
                    => id \notin DOMAIN sessions']_vars
    /\ [][\A i \in 1..uuids :
            ~present(UuidSeq[i]) => UuidSeq[i] \notin DOMAIN sessions']_vars
    /\ [](ret.op \in {"updateSession", "getSessionStatus"}
            => (ret.val = Null <=> ~present(ret.id)))

(* A sweep has removed a session. *)
C7_Witness ==
    /\ ret.op = "cleanupExpiredSessions"
    /\ ret.val.cleaned >= 1

(* C21: the operations on a session interleave as whole steps.  A session
   starts with counter 0; in every step the counter of a session that stays
   grows by one if the step is an updateSession on it and is unchanged
   otherwise, whichever of updateSession, revealSolution, addResponse,
   endSession and the sweep the step is, and a step of one session leaves
   every other session that stays as it was (so after N advances the counter
   is N); and no reachable state has a counter at or above the cap with a
   phase other than reveal. *)
C21_InterleavedOperationsLoseNoUpdate ==
    /\ [][\A id \in SessionIds :
            /\ (~present(id) /\ id \in DOMAIN sessions')
                   => sessions'[id].interactions = 0
            /\ (stays(id) /\ UpdateStep(id))
                   => sessions'[id].interactions = sessions[id].interactions + 1
            /\ (stays(id) /\ ~UpdateStep(id))
                   => sessions'[id].interactions = sessions[id].interactions
            /\ (stays(id) /\ ret'.id # id) => sessions'[id] = sessions[id]]_vars
    /\ [](\A id \in DOMAIN sessions :
            sessions[id].interactions >= MAX_GUIDED_QUESTIONS
                => sessions[id].phase = PHASE_REVEAL)

(* A sweep has removed one session and kept another that was advanced
   twice, forced to reveal and given an assistant turn in between. *)
C21_Witness ==
    /\ ret.op = "cleanupExpiredSessions" /\ ret.val.cleaned = 1
    /\ \E id \in DOMAIN sessions :
          /\ sessions[id].interactions = 2
          /\ sessions[id].phase = PHASE_REVEAL
          /\ Len(sessions[id].history) = 1
          /\ sessions[id].history[1].role = "assistant"


----------------------------------------------------------------------------
(* Properties of the analyze controller *)

(* An interview turn of POST /api/analyze that carries the session id. *)
InterviewTurn(id) ==
    \E problem \in ApiProblems, mode \in ApiModes :
        /\ mode = "interview" \/ includesKeyword(problem)
        /\ length(trim(problem)) >= minProblemChars
        /\ analyzeProblemStart(problem, mode,
                               [sessionId |-> id, revealSolution |-> FALSE])

(* The phase the Session Manager holds after n updateSession calls on a
   session createSession has just made. *)
RECURSIVE phaseAfterAdvances(_)
phaseAfterAdvances(n) ==
    IF n = 0 THEN PHASE_UNDERSTANDING
    ELSE nextPhase(phaseAfterAdvances(n - 1), n, MAX_GUIDED_QUESTIONS)

(* The interview turns of POST /api/analyze that the step has suspended at
   their await. *)
TurnsStarted ==
    {req \in BagToSet(awaiting') :
        /\ req.branch = "interview"
        /\ CopiesIn(req, awaiting') > CopiesIn(req, awaiting)}

(* C22: the phase the analyze endpoint gives to the pipeline for the n-th
   interview turn of a session, and reports in its response, is the phase
   the Session Manager holds after n updateSession calls on a new session. *)
C22_TurnPhaseFollowsSessionManager ==
    [][/\ \A req \in TurnsStarted :
            req.options.phase
                = phaseAfterAdvances(objects'[req.session].interactions)
       /\ \A req \in BagToSet(awaiting) :
            (req.branch = "interview" /\ analyzeProblemFinish(req)) =>
                res'.body.phase
                    = phaseAfterAdvances(objects[req.session].interactions)]_vars

(* C23: every session the analyze handler has stored is eventually gone
   from the store, by an end or reveal request or, once it has been idle
   beyond the timeout, by the sweep of the timer.  Stated for a session that
   has taken its last turn before the clock has moved: it is idle from then
   on, the clock passes twice the timeout and the timer keeps firing. *)
C23_StoredSessionEventuallyDestroyed ==
    \A id \in CallerIds :
        (/\ id \in DOMAIN interviewSessions
         /\ objects[interviewSessions[id]].interactions = MaxTurns
         /\ now = 0)
            ~> (id \notin DOMAIN interviewSessions)

(* A request answered with the not-found condition that left the store as
   it was. *)
NotFoundAndUntouched ==
    /\ res'.status = 404
    /\ UNCHANGED <<objects, interviewSessions>>

(* C8: a session-keyed operation of the API (an interview analyze turn that
   carries a sessionId, session status, reveal, end) given an identifier
   that is not in the session store answers with the not-found condition
   and neither creates nor modifies a session. *)
C8_UnknownSessionIsNotFound ==
    [][\A id \in CallerIds :
          ( /\ id \notin DOMAIN interviewSessions
            /\ \/ InterviewTurn(id)
               \/ apiGetSessionStatus(id)
               \/ apiRevealSolutionStart(id)
               \/ apiEndSession(id) ) => NotFoundAndUntouched]_vars

----------------------------------------------------------------------------
(* Properties of the expiry sweep *)

(* The step is a call of getSession, updateSession or revealSolution on id. *)
TouchStep(id) ==
    /\ ret'.op \in {"getSession", "updateSession", "revealSolution"}
    /\ ret'.id = id
    /\ now' = now

(* C28: a sweep leaves every session idle for at most the timeout, the
   boundary included, in the map with its fields unchanged, and getSession,
   updateSession and revealSolution leave the session they find with an
   idle time of zero. *)
C28_SweepRemovesOnlyExpiredSessions ==
    [][\A id \in SessionIds :
          /\ (/\ present(id) /\ CleanupStep
              /\ now - sessions[id].lastActivity <= sessionTimeout) =>
                 (stays(id) /\ sessions'[id] = sessions[id])
          /\ (TouchStep(id) /\ id \in DOMAIN sessions') =>
                 now' - sessions'[id].lastActivity = 0]_vars

(* A sweep has deleted one session and left one that had been idle for
   exactly the timeout. *)
C28_Witness ==
    /\ ret.op = "cleanupExpiredSessions"
    /\ ret.val.cleaned = 1
    /\ \E id \in DOMAIN sessions :
          now - sessions[id].lastActivity = sessionTimeout

----------------------------------------------------------------------------
(* Properties of the interview turns of the analyze controller *)

(* The step suspends one more analyze request of the interview branch on the
   session object at the address a. *)
TurnStarted(a) ==
    \E req \in BagToSet(awaiting') :
        /\ req.handler = "analyzeProblem" /\ req.branch = "interview"
        /\ req.session = a
        /\ CopiesIn(req, awaiting') > CopiesIn(req, awaiting)

(* The step sends the response of an interview turn on the object at a. *)
TurnAnswered(a) ==
    \E req \in BagToSet(awaiting) :
        /\ req.handler = "analyzeProblem" /\ req.branch = "interview"
        /\ req.session = a
        /\ CopiesIn(req, awaiting') < CopiesIn(req, awaiting)

(* C29: a turn counts when it starts, before the completion call: the step
   that suspends it leaves the counter one higher (1 on a new session), no
   other step changes the counter, and the response of a turn, successful
   or failed, reports max(0, 3 - counter). *)
C29_FailedTurnConsumesInteraction ==
    [][\A a \in Addresses :
          /\ TurnStarted(a) =>
                /\ a \in DOMAIN objects'
                /\ objects'[a].interactions =
                      (IF a \in DOMAIN objects THEN objects[a].interactions ELSE 0) + 1
          /\ (a \in DOMAIN objects /\ a \in DOMAIN objects' /\ ~TurnStarted(a)) =>
                objects'[a].interactions = objects[a].interactions
          /\ TurnAnswered(a) =>
                /\ res'.status = 200
                /\ res'.body.interactionsRemaining =
                      (IF objects[a].interactions >= 3 THEN 0
                       ELSE 3 - objects[a].interactions)]_vars

(* The fourth turn on a session has failed: its response says so and reports
   no interaction left, and the counter is 4. *)
C29_Witness ==
    /\ res.handler = "analyzeProblem" /\ res.status = 200
    /\ ~res.body.success
    /\ res.body.interactionsRemaining = 0
    /\ awaiting = EmptyBag
    /\ \E id \in DOMAIN interviewSessions :
          objects[interviewSessions[id]].interactions = 4

----------------------------------------------------------------------------
(* Properties of overlapping calls of the index *)

(* Every result pairs the document at a position of f with the inner
   product of the query and the vector at that position, and its rank is
   the place of that vector among the vectors of f, nearest first. *)
ConsistentWith(results, f, query) ==
    \A n \in 1..Len(results) :
        \E i \in 1..Len(f.index) :
            /\ i <= Len(f.documents)
            /\ results[n].document = f.documents[i]
            /\ results[n].score = innerProduct(normalizeVector(embed(query)), f.index[i])
            /\ results[n].score >= f.similarityThreshold
            /\ Cardinality({j \in 1..Len(f.index) :
                               Nearer(f.index, normalizeVector(embed(query)), j, i)})
                  = results[n].rank - 1

(* C30: the results a suspended search resolves to are empty or pair, in
   every result, the score of a vector with the document at that vector's
   position in the service as it is in the step that resumes the search. *)
C30_OverlappingSearchPairsByPosition ==
    [][\A s \in searching :
          (s.op = "search" /\ s \notin searching') =>
              \/ found'.results = << >>
              \/ ConsistentWith(found'.results, faiss, s.query)]_vars

(* A search that settled its k on two documents was resumed after the index
   had been replaced and refilled with one vector, and found a document. *)
C30_Witness ==
    /\ found.called
    /\ found.k > found.vectors
    /\ found.results # << >>

----------------------------------------------------------------------------
(* Properties of the EmbeddingService *)

(* C26: the provider switch is one-way: usePython never turns true again,
   a request to the Python provider begins only while usePython holds, a
   failed Python request leaves usePython false, and a failed Ollama request
   rejects its call without a further request and without a switch. *)
C26_ProviderSwitchIsOneWay ==
    [][ /\ (~embedder.usePython => ~embedder'.usePython)
        /\ (embedder'.last.attempted = "python" => embedder.usePython)
        /\ (embedder'.last.failed = "python" => ~embedder'.usePython)
        /\ (embedder'.last.failed = "ollama" =>
               /\ embedder'.calls[embedder'.last.call].at = "rejected"
               /\ embedder'.last.attempted = ""
               /\ embedder'.usePython = embedder.usePython) ]_vars

(* The first call failed on Python and was answered by the fallback; the
   second call, made after the switch, failed on Ollama and was rejected. *)
C26_Witness ==
    /\ ~embedder.usePython
    /\ Len(embedder.calls) = 2
    /\ embedder.calls[1].at = "resolved"
    /\ embedder.calls[1].embeddings[1].by = "ollama"
    /\ embedder.calls[2].at = "rejected"
    /\ embedder.last = [call |-> 2, failed |-> "ollama", attempted |-> ""]

(* C27: every vector a call has received from embed was computed for the
   text the call asked for. *)
C27_CachedVectorBelongsToItsText ==
    \A id \in DOMAIN embedder.calls :
        \A i \in 1..Len(embedder.calls[id].embeddings) :
            embedder.calls[id].embeddings[i].of = embedder.calls[id].texts[i]

====
